---- MODULE Spec2Model ----
(***************************************************************************)
(* Model of the serverless translation endpoint of slangify-backend        *)
(* (api/translate.ts): input validation, the per-client rate limiter, the  *)
(* response cache and the request handler with its upstream call.          *)
(*                                                                         *)
(* A text is a sequence of one-character strings.  A JSON value is a       *)
(* record tagged by its field k ("string", "number", "null", "array",      *)
(* "object", "undefined").  Times are milliseconds, as Date.now() gives.   *)
(***************************************************************************)
EXTENDS Integers, Sequences, FiniteSets, Bags, TLC

VARIABLES
    killSwitch,      \* CONFIG.KILL_SWITCH_ENABLED
    apiKeySet,       \* whether process.env.OPENAI_API_KEY is non-empty
    now,             \* the value Date.now() returns
    rateLimitStore,  \* Map key -> {count, windowStart}
    cacheStore,      \* Map cacheKey -> {result, timestamp, normalizedText}, in insertion order
    inflight,        \* the bag of the requests suspended at their upstream call
    last,            \* the most recent step of the handler: request, stage and response
    admitted,        \* per key: requests that passed the limiter since the key's window was set
    admissionLog,    \* the bag of <<key, time>> of the requests that passed the limiter
    client,          \* the app's call of translateViaBackend: phase, request, reply, result
    screen           \* the app's translation screen: remembered text, isLoading, attempts

vars == <<killSwitch, apiKeySet, now, rateLimitStore, cacheStore, inflight, last, admitted,
          admissionLog, client, screen>>

-----------------------------------------------------------------------------
(* CONFIG, api/translate.ts lines 18-27 *)

MAX_CHARACTERS == 80
MAX_WORDS == 20
RATE_LIMIT_REQUESTS == 10
RATE_LIMIT_WINDOW_MS == 3600000
CACHE_TTL_MS == 86400000
CACHE_MAX_SIZE == 100
CACHE_EVICT_COUNT == 50
UPSTREAM_BUSY_RETRY == 30
TRANSLATION_COUNT == 6
(* the time the client waits for the endpoint, src/api/translate-backend.ts *)
REQUEST_TIMEOUT_MS == 30000

-----------------------------------------------------------------------------
(* Bounds of the model *)

MaxInflight == 2   \* requests suspended at the upstream call at the same time
MaxSkew == 1       \* milliseconds explored after each base instant
MaxLogged == 2     \* recorded admissions up to which a fresh instance starts
MaxCalls == 4      \* calls of performTranslation on the screen

-----------------------------------------------------------------------------
(* Strings of the program, as sequences of characters *)

Whitespace == {" ", "\t"}

toLowerCaseChar(c) ==
    CASE c = "H" -> "h"
      [] c = "Y" -> "y"
      [] OTHER -> c

toLowerCase(s) == [i \in 1..Len(s) |-> toLowerCaseChar(s[i])]

RECURSIVE firstNonSpace(_, _)
firstNonSpace(s, i) ==
    IF i > Len(s) \/ s[i] \notin Whitespace THEN i ELSE firstNonSpace(s, i + 1)

RECURSIVE lastNonSpace(_, _)
lastNonSpace(s, i) ==
    IF i < 1 \/ s[i] \notin Whitespace THEN i ELSE lastNonSpace(s, i - 1)

trimStart(s) == SubSeq(s, firstNonSpace(s, 1), Len(s))

trimEnd(s) == SubSeq(s, 1, lastNonSpace(s, Len(s)))

trim(s) == trimEnd(trimStart(s))

(* s.replace(/\s+/g, " "): every maximal run of whitespace becomes one space *)
collapseWhitespace(s) ==
    LET kept == SelectSeq([i \in 1..Len(s) |-> i],
                          LAMBDA i : \/ s[i] \notin Whitespace
                                     \/ i = 1
                                     \/ s[i - 1] \notin Whitespace)
    IN  [j \in 1..Len(kept) |-> IF s[kept[j]] \in Whitespace THEN " " ELSE s[kept[j]]]

normalizeText(text) == collapseWhitespace(trim(toLowerCase(text)))

(* trimmed.split(/\s+/).filter(Boolean).length: the number of maximal runs  *)
(* of non-whitespace characters, counted at the last character of each      *)
wordCount(s) ==
    Cardinality({i \in 1..Len(s) :
                    /\ s[i] \notin Whitespace
                    /\ (i = Len(s) \/ s[i + 1] \in Whitespace)})

charCodeAt(c) ==
    CASE c = " " -> 32
      [] c = "\t" -> 9
      [] c = "[" -> 91
      [] c = "H" -> 72
      [] c = "Y" -> 89
      [] c = "a" -> 97
      [] c = "b" -> 98
      [] c = "h" -> 104
      [] c = "i" -> 105
      [] c = "o" -> 111
      [] c = "y" -> 121
      [] c = "z" -> 122

(* One round of the hash loop on a 32-bit value held as two 16-bit halves   *)
(* <<high, low>>: hash = (hash << 5) - hash + char; hash |= 0               *)
hashStep(h, code) ==
    LET lo == 31 * h[2] + code
        hi == 31 * h[1] + (lo \div 65536)
    IN  <<hi % 65536, lo % 65536>>

(* The rounds of the loop for the characters from..to of s, in order: the  *)
(* first half of the range, then the second half from the value the first  *)
(* half leaves (a half is 16 bits, never negative).                        *)
RECURSIVE hashRange(_, _, _, _)
hashRange(h, s, from, to) ==
    IF from > to THEN h
    ELSE IF from = to THEN hashStep(h, charCodeAt(s[from]))
    ELSE LET mid == (from + to) \div 2
             left == hashRange(h, s, from, mid)
         IN  IF left[1] >= 0 THEN hashRange(left, s, mid + 1, to) ELSE left

hashLoop(h, s) == hashRange(h, s, 1, Len(s))

(* Math.abs of the signed 32-bit value whose bits are h, again as halves    *)
mathAbs(h) ==
    IF h[1] < 32768 THEN h
    ELSE IF h[2] = 0 THEN <<65536 - h[1], 0>>
    ELSE <<65535 - h[1], 65536 - h[2]>>

(* the key computed from the text as it was sent *)
getCacheKey_RawText(text) == mathAbs(hashLoop(<<0, 0>>, text))

getCacheKey(text) == mathAbs(hashLoop(<<0, 0>>, normalizeText(text)))

-----------------------------------------------------------------------------
(* Request bodies.  A text value is a JSON value: a string carries the      *)
(* character sequence in s.                                                 *)

JString(s) == [k |-> "string", s |-> s]
JNumber(n) == [k |-> "number", n |-> n]
JNull == [k |-> "null"]
JUndefined == [k |-> "undefined"]
JArray(items) == [k |-> "array", items |-> items]

(* validateInput: "ok" or the error code *)
(* validateInput without the test of line 52 *)
validateInput_NoLengthLimit(text) ==
    IF text.k # "string" \/ Len(trim(text.s)) = 0 THEN "INVALID_INPUT"
    ELSE IF wordCount(trim(text.s)) > MAX_WORDS THEN "TOO_MANY_WORDS"
    ELSE "ok"

(* validateInput without the test of line 59 *)
validateInput_NoWordLimit(text) ==
    IF text.k # "string" \/ Len(trim(text.s)) = 0 THEN "INVALID_INPUT"
    ELSE IF Len(trim(text.s)) > MAX_CHARACTERS THEN "INPUT_TOO_LONG"
    ELSE "ok"

(* validateInput without the blank test of line 48 *)
validateInput_BlankAccepted(text) ==
    IF text.k # "string" \/ Len(text.s) = 0 THEN "INVALID_INPUT"
    ELSE IF Len(trim(text.s)) > MAX_CHARACTERS THEN "INPUT_TOO_LONG"
    ELSE IF wordCount(trim(text.s)) > MAX_WORDS THEN "TOO_MANY_WORDS"
    ELSE "ok"

validateInput(text) ==
    IF text.k # "string" \/ Len(trim(text.s)) = 0 THEN "INVALID_INPUT"
    ELSE IF Len(trim(text.s)) > MAX_CHARACTERS THEN "INPUT_TOO_LONG"
    ELSE IF wordCount(trim(text.s)) > MAX_WORDS THEN "TOO_MANY_WORDS"
    ELSE "ok"

-----------------------------------------------------------------------------
(* The upstream's parsed output and its structure check.                    *)

JObject(fields) == [k |-> "object", f |-> fields]

(* x.name in JavaScript: undefined unless x is an object that has the field *)
Field(x, name) ==
    IF x.k = "object" /\ name \in DOMAIN x.f THEN x.f[name] ELSE JUndefined

(* !x for a parsed value: null, undefined, 0 and "" are falsy *)
Falsy(x) ==
    \/ x.k \in {"null", "undefined"}
    \/ x.k = "number" /\ x.n = 0
    \/ x.k = "string" /\ x.s = ""

(* typeof x === "object" for a non-null x: objects and arrays *)
TypeofObject(x) == x.k \in {"object", "array"}

validSlangWord(sw) ==
    /\ ~Falsy(sw)
    /\ Field(sw, "word").k = "string"
    /\ Field(sw, "definition").k = "string"

validTranslation(t) ==
    /\ ~Falsy(t) /\ TypeofObject(t)
    /\ Field(t, "generation").k = "string"
    /\ Field(t, "text").k = "string"
    /\ Field(t, "slangWords").k = "array"
    /\ \A i \in 1..Len(Field(t, "slangWords").items) :
          validSlangWord(Field(t, "slangWords").items[i])

(* isValidResult without the length check of line 145 *)
isValidResult_NoLength(x) ==
    /\ ~Falsy(x) /\ TypeofObject(x)
    /\ Field(x, "detectedGeneration").k = "string"
    /\ Field(x, "originalText").k = "string"
    /\ Field(x, "translations").k = "array"
    /\ \A i \in 1..Len(Field(x, "translations").items) :
          validTranslation(Field(x, "translations").items[i])

isValidResult(x) ==
    /\ ~Falsy(x) /\ TypeofObject(x)
    /\ Field(x, "detectedGeneration").k = "string"
    /\ Field(x, "originalText").k = "string"
    /\ Field(x, "translations").k = "array"
    /\ Len(Field(x, "translations").items) = TRANSLATION_COUNT
    /\ \A i \in 1..Len(Field(x, "translations").items) :
          validTranslation(Field(x, "translations").items[i])

-----------------------------------------------------------------------------
(* The rate limiter, lines 68-86.  A Map is a function whose domain is the  *)
(* set of keys present; the empty Map is << >>.                             *)

EmptyMap == << >>

MapSet(m, key, value) ==
    [x \in DOMAIN m \cup {key} |-> IF x = key THEN value ELSE m[x]]

(* Math.ceil(a / b) for b > 0 *)
mathCeilDiv(a, b) == -((-a) \div b)

mathMax(a, b) == IF a >= b THEN a ELSE b

(* line 73: the stored window is over *)
windowExpired(t, windowStart) == t - windowStart > RATE_LIMIT_WINDOW_MS

(* line 78: the quota of the window is used up *)
quotaReached_OffByOne(count) == count > RATE_LIMIT_REQUESTS

quotaReached(count) == count >= RATE_LIMIT_REQUESTS

(* lines 79-80 *)
retryAfterOf(t, windowStart) ==
    mathMax(0, mathCeilDiv(windowStart + RATE_LIMIT_WINDOW_MS - t, 1000))

(* deviceId || "anonymous", lines 70 and 181 *)
clientKey(deviceId) ==
    IF deviceId.k = "string" /\ deviceId.s # "" THEN deviceId.s ELSE "anonymous"

(* the limiter with a new window starting from an emptied Map *)
checkRateLimit_ClearsOthers(store, key, t) ==
    IF key \notin DOMAIN store \/ windowExpired(t, store[key].windowStart)
    THEN [allowed |-> TRUE, retryAfter |-> JUndefined,
          store |-> MapSet(EmptyMap, key, [count |-> 1, windowStart |-> t])]
    ELSE IF quotaReached(store[key].count)
    THEN [allowed |-> FALSE,
          retryAfter |-> JNumber(retryAfterOf(t, store[key].windowStart)),
          store |-> store]
    ELSE [allowed |-> TRUE, retryAfter |-> JUndefined,
          store |-> MapSet(store, key, [count |-> store[key].count + 1,
                                        windowStart |-> store[key].windowStart])]

(* the limiter with a denial restarting the window *)
checkRateLimit_DenialExtends(store, key, t) ==
    IF key \notin DOMAIN store \/ windowExpired(t, store[key].windowStart)
    THEN [allowed |-> TRUE, retryAfter |-> JUndefined,
          store |-> MapSet(store, key, [count |-> 1, windowStart |-> t])]
    ELSE IF quotaReached(store[key].count)
    THEN [allowed |-> FALSE,
          retryAfter |-> JNumber(retryAfterOf(t, store[key].windowStart)),
          store |-> MapSet(store, key, [count |-> store[key].count,
                                        windowStart |-> t])]
    ELSE [allowed |-> TRUE, retryAfter |-> JUndefined,
          store |-> MapSet(store, key, [count |-> store[key].count + 1,
                                        windowStart |-> store[key].windowStart])]

(* the limiter with the count written back as it was read *)
checkRateLimit_LostIncrement(store, key, t) ==
    IF key \notin DOMAIN store \/ windowExpired(t, store[key].windowStart)
    THEN [allowed |-> TRUE, retryAfter |-> JUndefined,
          store |-> MapSet(store, key, [count |-> 1, windowStart |-> t])]
    ELSE IF quotaReached(store[key].count)
    THEN [allowed |-> FALSE,
          retryAfter |-> JNumber(retryAfterOf(t, store[key].windowStart)),
          store |-> store]
    ELSE [allowed |-> TRUE, retryAfter |-> JUndefined, store |-> store]

(* the limiter with the first request of a window denied *)
checkRateLimit_FirstDenied(store, key, t) ==
    IF key \notin DOMAIN store \/ windowExpired(t, store[key].windowStart)
    THEN [allowed |-> FALSE, retryAfter |-> JNumber(0), store |-> store]
    ELSE IF quotaReached(store[key].count)
    THEN [allowed |-> FALSE,
          retryAfter |-> JNumber(retryAfterOf(t, store[key].windowStart)),
          store |-> store]
    ELSE [allowed |-> TRUE, retryAfter |-> JUndefined,
          store |-> MapSet(store, key, [count |-> store[key].count + 1,
                                        windowStart |-> store[key].windowStart])]

checkRateLimit(store, key, t) ==
    IF key \notin DOMAIN store \/ windowExpired(t, store[key].windowStart)
    THEN [allowed |-> TRUE, retryAfter |-> JUndefined,
          store |-> MapSet(store, key, [count |-> 1, windowStart |-> t])]
    ELSE IF quotaReached(store[key].count)
    THEN [allowed |-> FALSE,
          retryAfter |-> JNumber(retryAfterOf(t, store[key].windowStart)),
          store |-> store]
    ELSE [allowed |-> TRUE, retryAfter |-> JUndefined,
          store |-> MapSet(store, key, [count |-> store[key].count + 1,
                                        windowStart |-> store[key].windowStart])]

-----------------------------------------------------------------------------
(* The response cache, lines 88-110.  cacheStore is the sequence of the     *)
(* Map's entries in insertion order.                                        *)

cacheIndex(cache, key) ==
    IF \E i \in 1..Len(cache) : cache[i].key = key
    THEN CHOOSE i \in 1..Len(cache) : cache[i].key = key
    ELSE 0

cacheDelete(cache, key) ==
    SelectSeq(cache, LAMBDA e : e.key # key)

(* line 94: the entry is too old to be served *)
cacheExpired_Always(t, timestamp) == TRUE

cacheExpired(t, timestamp) == t - timestamp > CACHE_TTL_MS

(* getFromCache when every lookup is a miss *)
getFromCache_AlwaysMiss(cache, text, t) == [result |-> JNull, cache |-> cache]

(* getFromCache without the comparison of line 98 *)
getFromCache_NoRecheck(cache, text, t) ==
    LET i == cacheIndex(cache, getCacheKey(text))
    IN  IF i = 0 THEN [result |-> JNull, cache |-> cache]
        ELSE IF cacheExpired(t, cache[i].timestamp)
        THEN [result |-> JNull, cache |-> cacheDelete(cache, cache[i].key)]
        ELSE [result |-> cache[i].result, cache |-> cache]

getFromCache(cache, text, t) ==
    LET i == cacheIndex(cache, getCacheKey(text))
    IN  IF i = 0 THEN [result |-> JNull, cache |-> cache]
        ELSE IF cacheExpired(t, cache[i].timestamp)
        THEN [result |-> JNull, cache |-> cacheDelete(cache, cache[i].key)]
        ELSE IF cache[i].normalizedText # normalizeText(text)
        THEN [result |-> JNull, cache |-> cache]
        ELSE [result |-> cache[i].result, cache |-> cache]

(* entries.sort by timestamp (stable), then the first 50 are deleted: the   *)
(* entry at i goes when fewer than 50 entries come before it in that order  *)
sortedBefore(cache, j, i) ==
    \/ cache[j].timestamp < cache[i].timestamp
    \/ cache[j].timestamp = cache[i].timestamp /\ j < i

(* the eviction taking the 50 entries that come last in the sorted order *)
evictOldest_Newest(cache) ==
    LET rank(i) == Cardinality({j \in 1..Len(cache) : sortedBefore(cache, j, i)})
        kept == SelectSeq([i \in 1..Len(cache) |-> i],
                          LAMBDA i : rank(i) < Len(cache) - CACHE_EVICT_COUNT)
    IN  [j \in 1..Len(kept) |-> cache[kept[j]]]

evictOldest(cache) ==
    LET rank(i) == Cardinality({j \in 1..Len(cache) : sortedBefore(cache, j, i)})
        kept == SelectSeq([i \in 1..Len(cache) |-> i],
                          LAMBDA i : rank(i) >= CACHE_EVICT_COUNT)
    IN  [j \in 1..Len(kept) |-> cache[kept[j]]]

cacheSet(cache, entry) ==
    LET i == cacheIndex(cache, entry.key)
    IN  IF i = 0 THEN Append(cache, entry)
        ELSE [cache EXCEPT ![i] = entry]

(* the put storing the text as it was sent *)
saveToCache_RawText(cache, text, result, t) ==
    LET kept == IF Len(cache) > CACHE_MAX_SIZE THEN evictOldest(cache) ELSE cache
    IN  cacheSet(kept, [key |-> getCacheKey(text), result |-> result,
                        timestamp |-> t, normalizedText |-> text])

saveToCache(cache, text, result, t) ==
    LET kept == IF Len(cache) > CACHE_MAX_SIZE THEN evictOldest(cache) ELSE cache
    IN  cacheSet(kept, [key |-> getCacheKey(text), result |-> result,
                        timestamp |-> t, normalizedText |-> normalizeText(text)])

-----------------------------------------------------------------------------
(* The upstream's answer and the parse pipeline, lines 214-256.             *)
(*                                                                          *)
(* An answer is [kind |-> "reject"] (fetch or text() throws) or a response  *)
(* with a status and a raw text.  A raw text is [json |-> FALSE] (not a     *)
(* JSON envelope) or [json |-> TRUE, content |-> c], c being what           *)
(* envelope?.choices?.[0]?.message?.content evaluates to: a JSON value,     *)
(* where a string carries the sequence of its pieces.  A piece is           *)
(* whitespace, prose without braces, a stray "{" or "}", or the text of one *)
(* JSON value.                                                              *)

PWs == [c |-> "ws"]
PProse == [c |-> "prose"]
POpen == [c |-> "open"]
PClose == [c |-> "close"]
PValue(v) == [c |-> "value", v |-> v]

(* openaiResponse.ok when every status counts as a success *)
responseOk_Always(status) == TRUE

responseOk(status) == status >= 200 /\ status <= 299

RECURSIVE trimPiecesStart(_)
trimPiecesStart(ps) ==
    IF ps # <<>> /\ Head(ps) = PWs THEN trimPiecesStart(Tail(ps)) ELSE ps

RECURSIVE trimPiecesEnd(_)
trimPiecesEnd(ps) ==
    IF ps # <<>> /\ ps[Len(ps)] = PWs
    THEN trimPiecesEnd(SubSeq(ps, 1, Len(ps) - 1))
    ELSE ps

(* line 233: content?.trim?.() ?? "" *)
resultTextOf(content) ==
    IF content.k = "string" THEN trimPiecesEnd(trimPiecesStart(content.s)) ELSE <<>>

(* JSON.parse of a text: it succeeds when the text is one JSON value,       *)
(* whitespace around it allowed                                             *)
jsonParse(ps) ==
    LET core == trimPiecesEnd(trimPiecesStart(ps))
    IN  IF Len(core) = 1 /\ core[1].c = "value"
        THEN [ok |-> TRUE, value |-> core[1].v]
        ELSE [ok |-> FALSE, value |-> JUndefined]

startsWithBrace(piece) ==
    piece.c = "open" \/ (piece.c = "value" /\ piece.v.k = "object")

endsWithBrace(piece) ==
    piece.c = "close" \/ (piece.c = "value" /\ piece.v.k = "object")

(* resultText.match(/\{[\s\S]*\}\s*$/): from the first "{" to the last "}", *)
(* which only whitespace may follow; <<>> when there is no match            *)
braceMatch(ps) ==
    LET core == trimPiecesEnd(ps)
        opens == {i \in 1..Len(core) : startsWithBrace(core[i])}
    IN  IF core # <<>> /\ endsWithBrace(core[Len(core)]) /\ opens # {}
           /\ (core[Len(core)].c = "close" =>
                  \E i \in opens : i < Len(core))
        THEN SubSeq(ps, CHOOSE i \in opens : \A j \in opens : i <= j, Len(ps))
        ELSE <<>>

(* a parse that takes the first JSON value found anywhere in the text *)
parseResultText_FirstValue(ps) ==
    IF \E i \in 1..Len(ps) : ps[i].c = "value"
    THEN [ok |-> TRUE, value |-> ps[CHOOSE i \in 1..Len(ps) : ps[i].c = "value"].v]
    ELSE [ok |-> FALSE, value |-> JUndefined]

(* lines 240-256: the parsed result, or the failure *)
parseResultText(ps) ==
    IF jsonParse(ps).ok THEN jsonParse(ps)
    ELSE IF braceMatch(ps) = <<>> THEN [ok |-> FALSE, value |-> JUndefined]
    ELSE jsonParse(braceMatch(ps))

-----------------------------------------------------------------------------
(* Requests and responses of the handler.                                   *)

MalformedBody == [k |-> "malformed"]
JsonBody(text, deviceId) == [k |-> "json", text |-> text, deviceId |-> deviceId]

Request(method, body) == [method |-> method, body |-> body]

(* a request with the remote address it comes from, which the handler never *)
(* reads                                                                    *)
RequestFrom(method, body, address) ==
    [method |-> method, body |-> body, address |-> address]

Absent == "absent"

(* lines 160-162: the response headers the handler sets, on every response; *)
(* no other line of the handler sets a header                               *)
CorsHeaders ==
    [h \in {"Access-Control-Allow-Origin", "Access-Control-Allow-Methods",
            "Access-Control-Allow-Headers"} |->
        CASE h = "Access-Control-Allow-Origin" -> "*"
          [] h = "Access-Control-Allow-Methods" -> "POST, OPTIONS"
          [] h = "Access-Control-Allow-Headers" -> "Content-Type"]

(* the error field of an error body: a string literal at every site, whose  *)
(* wording is left out                                                      *)
ErrorMessage == [k |-> "string", s |-> "message"]

(* an error body sent with status 500 whatever its code *)
ErrorResponse_Always500(status, code, retryAfter) ==
    [status |-> 500, code |-> code, output |-> JUndefined,
     cached |-> Absent, retryAfter |-> retryAfter,
     error |-> ErrorMessage, headers |-> CorsHeaders]

(* res.status(status).json({error, code, retryAfter}) *)
ErrorResponse(status, code, retryAfter) ==
    [status |-> status, code |-> code, output |-> JUndefined,
     cached |-> Absent, retryAfter |-> retryAfter,
     error |-> ErrorMessage, headers |-> CorsHeaders]

(* res.status(200).json({output, cached}) *)
OkResponse(output, cached) ==
    [status |-> 200, code |-> Absent, output |-> output,
     cached |-> cached, retryAfter |-> JUndefined,
     error |-> JUndefined, headers |-> CorsHeaders]

(* res.status(204).end() *)
EmptyResponse == [status |-> 204, code |-> Absent, output |-> JUndefined,
                  cached |-> Absent, retryAfter |-> JUndefined,
                  error |-> JUndefined, headers |-> CorsHeaders]

(* the request is suspended at its upstream call; nothing is sent yet *)
Pending == [status |-> 0, code |-> Absent, output |-> JUndefined,
            cached |-> Absent, retryAfter |-> JUndefined,
            error |-> JUndefined, headers |-> CorsHeaders]

(* What one run of the handler's code between two suspension points did:    *)
(* the stage it ended at, the response, and the two stores afterwards.      *)
Outcome(stage, response, store, cache) ==
    [stage |-> stage, response |-> response, store |-> store, cache |-> cache]

(* line 168 *)
killSwitchActive_Ignored(flag) == FALSE

killSwitchActive(flag) == flag

(* afterCacheMiss with a denial that leaves retryAfter out of the body *)
afterCacheMiss_NoHint(body, store, cache, t, keySet) ==
    LET rl == checkRateLimit(store, clientKey(body.deviceId), t)
    IN  IF ~rl.allowed
        THEN Outcome("rateLimit", ErrorResponse(429, "RATE_LIMITED", JUndefined),
                     rl.store, cache)
        ELSE IF ~keySet
        THEN Outcome("apiKey", ErrorResponse(500, "SERVER_ERROR", JUndefined),
                     rl.store, cache)
        ELSE Outcome("upstream", Pending, rl.store, cache)

(* lines 181-212: the limiter, the credential, then the upstream call *)
afterCacheMiss(body, store, cache, t, keySet) ==
    LET rl == checkRateLimit(store, clientKey(body.deviceId), t)
    IN  IF ~rl.allowed
        THEN Outcome("rateLimit", ErrorResponse(429, "RATE_LIMITED", rl.retryAfter),
                     rl.store, cache)
        ELSE IF ~keySet
        THEN Outcome("apiKey", ErrorResponse(500, "SERVER_ERROR", JUndefined),
                     rl.store, cache)
        ELSE Outcome("upstream", Pending, rl.store, cache)

(* afterValidation with the limiter run before the cache lookup *)
afterValidation_LimiterFirst(body, store, cache, t, keySet) ==
    LET rl == checkRateLimit(store, clientKey(body.deviceId), t)
        hit == getFromCache(cache, body.text.s, t)
    IN  IF ~rl.allowed
        THEN Outcome("rateLimit", ErrorResponse(429, "RATE_LIMITED", rl.retryAfter),
                     rl.store, cache)
        ELSE IF ~Falsy(hit.result)
        THEN Outcome("cache", OkResponse(hit.result, "true"), rl.store, hit.cache)
        ELSE IF ~keySet
        THEN Outcome("apiKey", ErrorResponse(500, "SERVER_ERROR", JUndefined),
                     rl.store, hit.cache)
        ELSE Outcome("upstream", Pending, rl.store, hit.cache)

(* afterValidation without the cache lookup *)
afterValidation_NoLookup(body, store, cache, t, keySet) ==
    afterCacheMiss(body, store, cache, t, keySet)

(* lines 178-189: the cache lookup, then the rest *)
afterValidation(body, store, cache, t, keySet) ==
    LET hit == getFromCache(cache, body.text.s, t)
    IN  IF ~Falsy(hit.result)
        THEN Outcome("cache", OkResponse(hit.result, "true"), store, hit.cache)
        ELSE afterCacheMiss(body, store, hit.cache, t, keySet)

(* the handler with the kill switch tested before the method *)
handlerSync_KillSwitchFirst(req, flag, keySet, store, cache, t) ==
    IF killSwitchActive(flag)
    THEN Outcome("killSwitch", ErrorResponse(503, "SERVICE_DISABLED", JUndefined),
                 store, cache)
    ELSE IF req.method = "OPTIONS"
    THEN Outcome("method", EmptyResponse, store, cache)
    ELSE IF req.method # "POST"
    THEN Outcome("method", ErrorResponse(405, "METHOD_NOT_ALLOWED", JUndefined),
                 store, cache)
    ELSE IF req.body.k = "malformed"
    THEN Outcome("body", ErrorResponse(500, "SERVER_ERROR", JUndefined), store, cache)
    ELSE IF validateInput(req.body.text) # "ok"
    THEN Outcome("validation",
                 ErrorResponse(400, validateInput(req.body.text), JUndefined),
                 store, cache)
    ELSE afterValidation(req.body, store, cache, t, keySet)

(* lines 160-212: the handler up to its first suspension point *)
handlerSync(req, flag, keySet, store, cache, t) ==
    IF req.method = "OPTIONS"
    THEN Outcome("method", EmptyResponse, store, cache)
    ELSE IF req.method # "POST"
    THEN Outcome("method", ErrorResponse(405, "METHOD_NOT_ALLOWED", JUndefined),
                 store, cache)
    ELSE IF killSwitchActive(flag)
    THEN Outcome("killSwitch", ErrorResponse(503, "SERVICE_DISABLED", JUndefined),
                 store, cache)
    ELSE IF req.body.k = "malformed"
    THEN Outcome("body", ErrorResponse(500, "SERVER_ERROR", JUndefined), store, cache)
    ELSE IF validateInput(req.body.text) # "ok"
    THEN Outcome("validation",
                 ErrorResponse(400, validateInput(req.body.text), JUndefined),
                 store, cache)
    ELSE afterValidation(req.body, store, cache, t, keySet)

(* lines 214-264: the handler from the upstream's answer to its response *)
handlerResume(req, answer, store, cache, t) ==
    IF answer.kind = "reject"
    THEN Outcome("fetch", ErrorResponse(500, "SERVER_ERROR", JUndefined), store, cache)
    ELSE IF ~responseOk(answer.status)
    THEN IF answer.status = 429
         THEN Outcome("status",
                      ErrorResponse(429, "RATE_LIMITED", JNumber(UPSTREAM_BUSY_RETRY)),
                      store, cache)
         ELSE Outcome("status", ErrorResponse(500, "SERVER_ERROR", JUndefined),
                      store, cache)
    ELSE IF ~answer.raw.json
    THEN Outcome("envelope", ErrorResponse(500, "PARSE_ERROR", JUndefined), store, cache)
    ELSE IF resultTextOf(answer.raw.content) = <<>>
    THEN Outcome("content", ErrorResponse(500, "INCOMPLETE_RESPONSE", JUndefined),
                 store, cache)
    ELSE IF ~parseResultText(resultTextOf(answer.raw.content)).ok
    THEN Outcome("parse", ErrorResponse(500, "PARSE_ERROR", JUndefined), store, cache)
    ELSE IF ~isValidResult(parseResultText(resultTextOf(answer.raw.content)).value)
    THEN Outcome("schema", ErrorResponse(500, "INCOMPLETE_RESPONSE", JUndefined),
                 store, cache)
    ELSE Outcome("done",
                 OkResponse(parseResultText(resultTextOf(answer.raw.content)).value,
                            Absent),
                 store,
                 saveToCache(cache, req.body.text.s,
                             parseResultText(resultTextOf(answer.raw.content)).value, t))

-----------------------------------------------------------------------------
(* The older endpoint of src/unnamed/part_001.  Its code up to the upstream *)
(* call (lines 168-240) is the code of src/api/translate.ts but for         *)
(* parseBody; after the call it differs (lines 242-278).                    *)

(* part_001 line 253: data.choices?.[0]?.message?.content?.trim() || "",    *)
(* which throws when the content is neither nullish nor a string            *)
variantResultText(content) ==
    IF content.k = "string"
    THEN [ok |-> TRUE, text |-> trimPiecesEnd(trimPiecesStart(content.s))]
    ELSE IF content.k \in {"undefined", "null"}
    THEN [ok |-> TRUE, text |-> <<>>]
    ELSE [ok |-> FALSE, text |-> <<>>]

(* part_001 line 256: resultText.match(/\{[\s\S]*\}/), from the first "{" to *)
(* the last "}"; <<>> when there is no match                                *)
variantBraceMatch(ps) ==
    LET opens == {i \in 1..Len(ps) : startsWithBrace(ps[i])}
        closes == {i \in 1..Len(ps) : endsWithBrace(ps[i])}
        first == CHOOSE i \in opens : \A j \in opens : i <= j
        final == CHOOSE i \in closes : \A j \in closes : i >= j
    IN  IF opens # {} /\ closes # {}
           /\ (first < final \/ (first = final /\ ps[first].c = "value"))
        THEN SubSeq(ps, first, final)
        ELSE <<>>

(* part_001 lines 242-278: the endpoint from the upstream's answer on *)
variantResume(req, answer, store, cache, t) ==
    IF answer.kind = "reject"
    THEN Outcome("fetch", ErrorResponse(500, "SERVER_ERROR", JUndefined), store, cache)
    ELSE IF ~responseOk(answer.status)
    THEN IF answer.status = 429
         THEN Outcome("status",
                      ErrorResponse(429, "RATE_LIMITED", JNumber(UPSTREAM_BUSY_RETRY)),
                      store, cache)
         ELSE Outcome("status", ErrorResponse(500, "SERVER_ERROR", JUndefined),
                      store, cache)
    ELSE IF ~answer.raw.json
    THEN Outcome("envelope", ErrorResponse(500, "SERVER_ERROR", JUndefined), store, cache)
    ELSE IF ~variantResultText(answer.raw.content).ok
    THEN Outcome("content", ErrorResponse(500, "SERVER_ERROR", JUndefined), store, cache)
    ELSE IF variantBraceMatch(variantResultText(answer.raw.content).text) = <<>>
    THEN Outcome("parse", ErrorResponse(500, "PARSE_ERROR", JUndefined), store, cache)
    ELSE IF ~jsonParse(variantBraceMatch(variantResultText(answer.raw.content).text)).ok
    THEN Outcome("parse", ErrorResponse(500, "PARSE_ERROR", JUndefined), store, cache)
    ELSE LET result ==
                 jsonParse(variantBraceMatch(
                     variantResultText(answer.raw.content).text)).value
         IN  Outcome("done", OkResponse(result, Absent), store,
                     saveToCache(cache, req.body.text.s, result, t))

-----------------------------------------------------------------------------
(* The app's client, src/src/api/translate-backend.ts lines 118-253, and    *)
(* its wrapper, src/src/api/anthropic.ts lines 34-47.                       *)
(*                                                                          *)
(* What arrives at the client is a status and a body text; the body text is *)
(* [json |-> FALSE] or [json |-> TRUE, value |-> v], v the JSON value it    *)
(* parses to.                                                               *)

JBoolean(b) == [k |-> "boolean", b |-> b]

(* res.status(...).json(...) and res.status(204).end() of the handler, as   *)
(* sent: JSON.stringify leaves out the fields that are undefined            *)
wireOf(response) ==
    [status |-> response.status,
     body |->
        IF response.status = 204 THEN [json |-> FALSE]
        ELSE IF response.status = 200
        THEN [json |-> TRUE,
              value |-> IF response.cached = Absent
                        THEN JObject([output |-> response.output])
                        ELSE JObject([output |-> response.output,
                                      cached |-> JBoolean(TRUE)])]
        ELSE [json |-> TRUE,
              value |-> IF response.retryAfter = JUndefined
                        THEN JObject([error |-> response.error,
                                      code |-> JString(response.code)])
                        ELSE JObject([error |-> response.error,
                                      code |-> JString(response.code),
                                      retryAfter |-> response.retryAfter])]]

(* the TranslateResponse values the client resolves with *)
Failure(code, retryAfter) ==
    [success |-> FALSE, output |-> JUndefined, cached |-> JUndefined,
     error |-> [code |-> code, message |-> ErrorMessage, retryAfter |-> retryAfter]]

Success(output, cached) ==
    [success |-> TRUE, output |-> output, cached |-> cached, error |-> JUndefined]

Resolved(value) == [kind |-> "resolved", value |-> value]

(* the promise of an async function whose body threw outside a try block *)
RejectedPromise == [kind |-> "rejected"]

(* translate-backend.ts line 133 without its typeof test: trim is called on *)
(* whatever is truthy                                                       *)
textMissing_NoTypeCheck(text) ==
    IF text.k \in {"undefined", "null"} THEN [threw |-> FALSE, missing |-> TRUE]
    ELSE IF text.k # "string" THEN [threw |-> TRUE, missing |-> FALSE]
    ELSE [threw |-> FALSE, missing |-> Len(trim(text.s)) = 0]

(* translate-backend.ts line 133:                                           *)
(* !text || typeof text !== "string" || text.trim().length === 0            *)
textMissing(text) ==
    IF text.k # "string" THEN [threw |-> FALSE, missing |-> TRUE]
    ELSE [threw |-> FALSE, missing |-> Len(trim(text.s)) = 0]

(* translate-backend.ts lines 119-141: the client before its try block;     *)
(* "send" when it goes on to the request                                    *)
clientStart(configured, text) ==
    IF ~configured THEN Resolved(Failure("SERVER_ERROR", JUndefined))
    ELSE IF textMissing(text).threw THEN RejectedPromise
    ELSE IF textMissing(text).missing THEN Resolved(Failure("INVALID_INPUT", JUndefined))
    ELSE [kind |-> "send"]

(* translate-backend.ts lines 152-162: the request the client sends *)
DeviceId == JString("device-1")

clientRequest(text) == Request("POST", JsonBody(JString(trim(text.s)), DeviceId))

(* the error code taken from the body as it is, whatever the string *)
errorCodeOf(value) ==
    IF Field(value, "code").k = "string" /\ Field(value, "code").s # ""
    THEN Field(value, "code").s
    ELSE "SERVER_ERROR"

(* translate-backend.ts lines 167-217 and, for a body that parses to null,  *)
(* the TypeError caught at 218-253: what the client makes of a reply        *)
translateOutcome(reply) ==
    IF ~reply.body.json
    THEN Failure("PARSE_ERROR", JUndefined)
    ELSE IF reply.body.value.k = "null"
    THEN Failure("SERVER_ERROR", JUndefined)
    ELSE IF ~responseOk(reply.status)
    THEN Failure(errorCodeOf(reply.body.value), Field(reply.body.value, "retryAfter"))
    ELSE IF Field(reply.body.value, "output").k \in {"undefined", "null"}
    THEN Failure("SERVER_ERROR", JUndefined)
    ELSE Success(Field(reply.body.value, "output"), Field(reply.body.value, "cached"))

(* translate-backend.ts lines 218-253: what the client makes of an error    *)
(* thrown by fetch or by response.text()                                    *)
AbortError == [name |-> "AbortError", aboutNetwork |-> FALSE]
NetworkFailure == [name |-> "TypeError", aboutNetwork |-> TRUE]
OtherFailure == [name |-> "Error", aboutNetwork |-> FALSE]

catchOutcome(error) ==
    IF error.name = "AbortError" \/ error.aboutNetwork
    THEN Failure("NETWORK_ERROR", JUndefined)
    ELSE Failure("SERVER_ERROR", JUndefined)

(* anthropic.ts lines 34-47: translateWithOpenAI returns the output or      *)
(* throws a TranslationError                                                *)
translateWithOpenAI(response) ==
    IF ~response.success \/ response.output.k \in {"undefined", "null"}
    THEN [kind |-> "throw",
          code |-> IF response.error = JUndefined THEN "SERVER_ERROR"
                   ELSE response.error.code]
    ELSE [kind |-> "return", output |-> response.output]

(* part_000 lines 355-364 without the test of line 356 against the          *)
(* remembered text                                                          *)
performTranslation_NoDedup(scr, text) ==
    IF trim(text) = <<>>
    THEN scr
    ELSE [scr EXCEPT !.lastTranslatedText = trim(text),
                     !.isLoading = TRUE,
                     !.attempts = scr.attempts (+) SetToBag({trim(text)}),
                     !.sent = scr.sent + 1]

(* part_000 lines 355-364: performTranslation up to its await; the screen   *)
(* is left as it was, or the text is remembered, isLoading is set and       *)
(* translateWithOpenAI is called with the trimmed text                      *)
performTranslation(scr, text) ==
    IF trim(text) = <<>> \/ trim(text) = scr.lastTranslatedText
    THEN scr
    ELSE [scr EXCEPT !.lastTranslatedText = trim(text),
                     !.isLoading = TRUE,
                     !.attempts = scr.attempts (+) SetToBag({trim(text)}),
                     !.sent = scr.sent + 1]

(* translate-backend.ts lines 38-46 *)
TranslateErrorCode ==
    {"INPUT_TOO_LONG", "TOO_MANY_WORDS", "RATE_LIMITED", "SERVICE_DISABLED",
     "SERVER_ERROR", "NETWORK_ERROR", "INVALID_INPUT", "PARSE_ERROR"}

-----------------------------------------------------------------------------
(* Inputs of the model: texts, request bodies, upstream outputs.            *)

TextHi == <<"h", "i">>
TextHiSpaced == <<" ", "H", "i", "\t">>
TextYo == <<"y", "o">>
TextBlank == <<" ", "\t">>
(* two texts with different normalized forms and the same cache key, and a  *)
(* text with the normalized form of the first                               *)
TextAz == <<"a", "z">>
TextBBracket == <<"b", "[">>
TextAzSpaced == <<" ", "a", "z">>
TextTooLong == [i \in 1..(MAX_CHARACTERS + 1) |-> "a"]
TextTooManyWords == [i \in 1..(2 * MAX_WORDS + 1) |-> IF i % 2 = 1 THEN "a" ELSE " "]
(* texts at the limits: 80 characters, 80 characters between blanks, 20     *)
(* words, and 41 words in 81 characters                                     *)
TextEmpty == << >>
TextMaxLength == [i \in 1..MAX_CHARACTERS |-> "a"]
TextPadded == <<" ">> \o TextMaxLength \o <<"\t">>
TextMaxWords == [i \in 1..(2 * MAX_WORDS - 1) |-> IF i % 2 = 1 THEN "a" ELSE " "]
TextLongAndWordy == [i \in 1..(MAX_CHARACTERS + 1) |-> IF i % 2 = 1 THEN "a" ELSE " "]

Generations == {"Classic", "Baby Boomers", "Gen X", "Millennials", "Gen Z", "Gen Alpha"}

SlangWord(word, definition) ==
    JObject([word |-> JString(word), definition |-> JString(definition)])

Translation(generation, text, slangWords) ==
    JObject([generation |-> JString(generation), text |-> JString(text),
             slangWords |-> JArray(slangWords)])

Result(detected, translations) ==
    JObject([detectedGeneration |-> JString(detected),
             originalText |-> JString("hi"),
             translations |-> JArray(translations)])

FiveTranslations ==
    << Translation("Classic", "hello there", <<>>),
       Translation("Baby Boomers", "hey man", <<>>),
       Translation("Gen X", "sup", <<>>),
       Translation("Millennials", "heyyy", <<>>),
       Translation("Gen Z", "yo bestie", <<SlangWord("bestie", "best friend")>>) >>

GoodResult ==
    Result("Standard English",
           Append(FiveTranslations, Translation("Gen Alpha", "yo sigma", <<>>)))

OtherGoodResult ==
    Result("Gen Z",
           Append(FiveTranslations,
                  Translation("Gen Alpha", "hi rizzler",
                              <<SlangWord("rizzler", "charming person")>>)))

(* six entries, "Gen Z" twice and "Gen Alpha" missing *)
RepeatedGenerationResult ==
    Result("Standard English",
           Append(FiveTranslations, Translation("Gen Z", "hiii", <<>>)))

FiveResult == Result("Standard English", FiveTranslations)

(* six entries, one slang word with a number for its definition *)
BadSlangWordResult ==
    Result("Standard English",
           Append(FiveTranslations,
                  Translation("Gen Alpha", "yo sigma",
                              <<JObject([word |-> JString("sigma"),
                                         definition |-> JNumber(1)])>>)))

(* six entries, detectedGeneration null *)
NullDetectedResult ==
    JObject([detectedGeneration |-> JNull, originalText |-> JString("hi"),
             translations |-> GoodResult.f.translations])

Rejected == [kind |-> "reject"]
Http(status, raw) == [kind |-> "response", status |-> status, raw |-> raw]
NotJson == [json |-> FALSE]
Envelope(content) == [json |-> TRUE, content |-> content]
Content(pieces) == Envelope(JString(pieces))

NoAnswer == [kind |-> "none"]

-----------------------------------------------------------------------------
(* The state machine.                                                       *)

NoReq == [method |-> "none"]

NoReply == [status |-> 0, body |-> [json |-> FALSE]]

NoResult == [kind |-> "none"]

(* no call of translateViaBackend is under way *)
ClientIdle == [configured |-> TRUE, phase |-> "idle", text |-> JUndefined,
               req |-> NoReq, at |-> 0, served |-> FALSE, reply |-> NoReply,
               result |-> NoResult]

(* the screen as it is mounted, part_000 lines 320-326: the remembered text *)
(* and isLoading, with the bag of the texts whose translateWithOpenAI call  *)
(* is pending, how the last completed call ended, the argument of the last  *)
(* performTranslation, and the numbers of calls of performTranslation, of   *)
(* calls of translateWithOpenAI and of completed ones                       *)
ScreenIdle == [lastTranslatedText |-> <<>>, isLoading |-> FALSE,
               attempts |-> EmptyBag, outcome |-> "none", called |-> <<>>,
               calls |-> 0, sent |-> 0, completed |-> 0]

NoLast == [req |-> NoReq, stage |-> "none", response |-> Pending,
           at |-> 0, answer |-> NoAnswer]

InitStores ==
    /\ now = 0
    /\ rateLimitStore = EmptyMap
    /\ cacheStore = <<>>
    /\ inflight = EmptyBag
    /\ last = NoLast
    /\ admitted = EmptyMap
    /\ admissionLog = EmptyBag
    /\ client = ClientIdle
    /\ screen = ScreenIdle

(* the host runs one more request while fewer than MaxInflight are suspended *)
CanSuspend == BagCardinality(inflight) < MaxInflight

(* The requests of the key that have passed the limiter since the key's     *)
(* window was set, after a request of the key has passed it                 *)
admittedAfter(key, storeAfter) ==
    IF /\ key \in DOMAIN rateLimitStore
       /\ key \in DOMAIN admitted
       /\ storeAfter[key].windowStart = rateLimitStore[key].windowStart
    THEN admitted[key] + 1
    ELSE 1

(* The handler runs from the arrival of a request to its response or to the *)
(* upstream call, where it is suspended.                                    *)
handlerEntry(req) ==
    LET out == handlerSync(req, killSwitch, apiKeySet, rateLimitStore, cacheStore, now)
    IN  /\ out.stage = "upstream" => CanSuspend
        /\ rateLimitStore' = out.store
        /\ cacheStore' = out.cache
        /\ inflight' = IF out.stage = "upstream"
                       THEN inflight (+) SetToBag({req})
                       ELSE inflight
        /\ last' = [req |-> req, stage |-> out.stage, response |-> out.response,
                    at |-> now, answer |-> NoAnswer]
        /\ admitted' = IF out.stage \in {"apiKey", "upstream"}
                       THEN MapSet(admitted, clientKey(req.body.deviceId),
                                   admittedAfter(clientKey(req.body.deviceId), out.store))
                       ELSE admitted
        /\ UNCHANGED <<killSwitch, apiKeySet, now>>

(* A request arrives. *)
Receive(req) ==
    /\ handlerEntry(req)
    /\ UNCHANGED <<admissionLog, client, screen>>

(* A request arrives, and the instant is recorded if it passes the limiter. *)
ReceiveLogged(req) ==
    /\ handlerEntry(req)
    /\ admissionLog' = IF last'.stage \in {"apiKey", "upstream"}
                       THEN admissionLog (+) SetToBag({<<clientKey(req.body.deviceId), now>>})
                       ELSE admissionLog
    /\ UNCHANGED <<client, screen>>

(* The upstream answers a suspended request: the handler runs to its        *)
(* response.                                                                *)
handlerAnswer(req, answer) ==
    /\ BagIn(req, inflight)
    /\ LET out == handlerResume(req, answer, rateLimitStore, cacheStore, now)
       IN  /\ rateLimitStore' = out.store
           /\ cacheStore' = out.cache
           /\ last' = [req |-> req, stage |-> out.stage,
                       response |-> out.response, at |-> now, answer |-> answer]
    /\ inflight' = inflight (-) SetToBag({req})
    /\ UNCHANGED <<killSwitch, apiKeySet, now, admitted, admissionLog>>

(* The upstream answers a suspended request. *)
Answer(req, answer) ==
    /\ handlerAnswer(req, answer)
    /\ UNCHANGED <<client, screen>>

(* A request arrives at the endpoint of part_001. *)
ReceiveVariant(req) ==
    /\ handlerEntry(req)
    /\ UNCHANGED <<admissionLog, client, screen>>

(* The upstream answers a request suspended in the endpoint of part_001. *)
AnswerVariant(req, answer) ==
    /\ BagIn(req, inflight)
    /\ LET out == variantResume(req, answer, rateLimitStore, cacheStore, now)
       IN  /\ rateLimitStore' = out.store
           /\ cacheStore' = out.cache
           /\ last' = [req |-> req, stage |-> out.stage,
                       response |-> out.response, at |-> now, answer |-> answer]
    /\ inflight' = inflight (-) SetToBag({req})
    /\ UNCHANGED <<killSwitch, apiKeySet, now, admitted, admissionLog, client, screen>>

(* Time passes. *)
Tick(t) ==
    /\ t > now
    /\ now' = t
    /\ UNCHANGED <<killSwitch, apiKeySet, rateLimitStore, cacheStore, inflight, last,
                   admitted, admissionLog, client, screen>>

(* lines 29-30: the two Maps live in the memory of one instance; when the   *)
(* host starts a fresh instance, between requests, both are empty again.    *)
(* The recorded admissions are kept, at most MaxLogged of them at a start.  *)
ColdStart ==
    /\ inflight = EmptyBag
    /\ rateLimitStore # EmptyMap \/ cacheStore # <<>>
    /\ BagCardinality(admissionLog) <= MaxLogged
    /\ rateLimitStore' = EmptyMap
    /\ cacheStore' = <<>>
    /\ UNCHANGED <<killSwitch, apiKeySet, now, inflight, last, admitted, admissionLog,
                   client, screen>>

(* The app calls translateViaBackend(text): translate-backend.ts 118-162.   *)
(* The call is over at once, or the request is sent and the timer set.      *)
ClientCall(text) ==
    /\ client.phase \in {"idle", "resolved"}
    /\ LET start == clientStart(client.configured, text)
       IN  client' =
             IF start.kind = "send"
             THEN [client EXCEPT !.phase = "fetch", !.text = text,
                                 !.req = clientRequest(text), !.at = now,
                                 !.served = FALSE, !.reply = NoReply,
                                 !.result = NoResult]
             ELSE [client EXCEPT !.phase = "resolved", !.text = text,
                                 !.req = NoReq, !.at = now, !.served = FALSE,
                                 !.reply = NoReply, !.result = start]
    /\ UNCHANGED <<killSwitch, apiKeySet, now, rateLimitStore, cacheStore, inflight,
                   last, admitted, admissionLog, screen>>

(* The client's request arrives at the handler; a response the handler      *)
(* sends is on its way to the client.                                       *)
ClientServe ==
    /\ client.phase = "fetch"
    /\ ~client.served
    /\ handlerEntry(client.req)
    /\ client' = [client EXCEPT !.served = TRUE,
                                !.reply = IF last'.stage = "upstream" THEN NoReply
                                          ELSE wireOf(last'.response)]
    /\ UNCHANGED <<admissionLog, screen>>

(* The upstream answers a suspended request of the client and the handler's *)
(* response is on its way, to the call that waits for it if there is one.   *)
ClientAnswer(req, answer) ==
    /\ handlerAnswer(req, answer)
    /\ client' = IF /\ client.phase = "fetch"
                    /\ client.served
                    /\ client.reply = NoReply
                    /\ client.req = req
                 THEN [client EXCEPT !.reply = wireOf(last'.response)]
                 ELSE client
    /\ UNCHANGED screen

(* Something between the client and the handler answers in its place. *)
ClientGateway(reply) ==
    /\ client.phase = "fetch"
    /\ client.reply = NoReply
    /\ client' = [client EXCEPT !.reply = reply]
    /\ UNCHANGED <<killSwitch, apiKeySet, now, rateLimitStore, cacheStore, inflight,
                   last, admitted, admissionLog, screen>>

(* translate-backend.ts lines 151-165: fetch resolves when the status and   *)
(* the headers are there, and the timer is cleared.                         *)
ClientHeaders ==
    /\ client.phase = "fetch"
    /\ client.reply # NoReply
    /\ client' = [client EXCEPT !.phase = "body"]
    /\ UNCHANGED <<killSwitch, apiKeySet, now, rateLimitStore, cacheStore, inflight,
                   last, admitted, admissionLog, screen>>

(* translate-backend.ts lines 167-217: response.text() resolves and the     *)
(* client makes its result of the reply.                                    *)
ClientBody ==
    /\ client.phase = "body"
    /\ client' = [client EXCEPT !.phase = "resolved",
                                !.result = Resolved(translateOutcome(client.reply))]
    /\ UNCHANGED <<killSwitch, apiKeySet, now, rateLimitStore, cacheStore, inflight,
                   last, admitted, admissionLog, screen>>

(* translate-backend.ts lines 147-149, 218-229: the timer fires while fetch *)
(* is pending, the request is aborted and fetch throws an AbortError; a     *)
(* reply on its way is not delivered.                                       *)
ClientAbort ==
    /\ client.phase = "fetch"
    /\ now - client.at >= REQUEST_TIMEOUT_MS
    /\ client' = [client EXCEPT !.phase = "resolved", !.reply = NoReply,
                                !.result = Resolved(catchOutcome(AbortError))]
    /\ UNCHANGED <<killSwitch, apiKeySet, now, rateLimitStore, cacheStore, inflight,
                   last, admitted, admissionLog, screen>>

(* translate-backend.ts lines 218-253: fetch or response.text() throws; the *)
(* reply, if there was one, is not delivered.                               *)
ClientFails(error) ==
    /\ client.phase \in {"fetch", "body"}
    /\ client' = [client EXCEPT !.phase = "resolved", !.reply = NoReply,
                                !.result = Resolved(catchOutcome(error))]
    /\ UNCHANGED <<killSwitch, apiKeySet, now, rateLimitStore, cacheStore, inflight,
                   last, admitted, admissionLog, screen>>

(* Time passes, up to the instant at which a set timer fires. *)
ClientTick(t) ==
    /\ client.phase = "fetch" => t <= client.at + REQUEST_TIMEOUT_MS
    /\ Tick(t)

(* part_000 lines 355-364: performTranslation(text) is called. *)
PerformTranslation(text) ==
    /\ screen.calls < MaxCalls
    /\ screen' = [performTranslation(screen, text) EXCEPT
                      !.called = text, !.calls = screen.calls + 1]
    /\ UNCHANGED <<killSwitch, apiKeySet, now, rateLimitStore, cacheStore, inflight,
                   last, admitted, admissionLog, client>>

(* part_000 lines 364-396: a pending translateWithOpenAI returns or throws; *)
(* the result or the error is shown and isLoading is reset.                 *)
AttemptCompletes(text, outcome) ==
    /\ BagIn(text, screen.attempts)
    /\ screen' = [screen EXCEPT !.attempts = screen.attempts (-) SetToBag({text}),
                                !.outcome = outcome,
                                !.isLoading = FALSE,
                                !.completed = screen.completed + 1]
    /\ UNCHANGED <<killSwitch, apiKeySet, now, rateLimitStore, cacheStore, inflight,
                   last, admitted, admissionLog, client>>

(* part_000 lines 405-411: handleClear. *)
HandleClear ==
    /\ screen' = [screen EXCEPT !.lastTranslatedText = <<>>, !.outcome = "none"]
    /\ UNCHANGED <<killSwitch, apiKeySet, now, rateLimitStore, cacheStore, inflight,
                   last, admitted, admissionLog, client>>

Instants(bases) == {b + j : b \in bases, j \in 0..MaxSkew}

-----------------------------------------------------------------------------
(* Spec: every kind of request and of upstream answer, one client key and   *)
(* one valid text, two instants.                                            *)

Requests ==
    {Request("POST", b) : b \in
        {MalformedBody} \cup
        {JsonBody(t, JUndefined) : t \in
            {JUndefined, JNumber(5), JString(TextHi),
             JString(TextBlank), JString(TextTooLong), JString(TextTooManyWords)}}}
    \cup {Request(m, JsonBody(JString(TextHi), JUndefined)) : m \in {"GET", "OPTIONS"}}

Answers ==
    {Rejected, Http(429, NotJson), Http(500, NotJson), Http(200, NotJson),
     Http(200, Envelope(JUndefined))}
    \cup {Http(200, Content(ps)) : ps \in
            { <<PWs>>,
              <<PProse>>,
              <<PProse, PClose>>,
              <<POpen, PValue(GoodResult)>>,
              <<PValue(JNumber(5))>>,
              <<PValue(JNull)>>,
              <<PValue(GoodResult), PWs>>,
              <<PProse, PValue(OtherGoodResult)>>,
              <<PValue(RepeatedGenerationResult)>>,
              <<PValue(FiveResult)>>,
              <<PProse, PValue(FiveResult)>>,
              <<PValue(BadSlangWordResult)>>,
              <<PValue(NullDetectedResult)>> }}

Times == {0, 1}

Init ==
    /\ killSwitch \in BOOLEAN
    /\ apiKeySet \in BOOLEAN
    /\ InitStores

Next ==
    \/ \E req \in Requests : Receive(req)
    \/ \E req \in Requests, a \in Answers : Answer(req, a)
    \/ \E t \in Times : Tick(t)

Spec == Init /\ [][Next]_vars

-----------------------------------------------------------------------------
(* SpecRate: valid requests of one client key over two texts, an upstream   *)
(* that succeeds or fails, and instants around the start and the end of the *)
(* rate-limit window.                                                       *)

RateRequests ==
    {Request("POST", JsonBody(JString(t), JUndefined)) : t \in {TextHi, TextYo}}

RateAnswers ==
    {Http(500, NotJson), Http(200, Content(<<PValue(GoodResult)>>))}

RateTimes == Instants({0, RATE_LIMIT_WINDOW_MS})

InitRate ==
    /\ killSwitch = FALSE
    /\ apiKeySet = TRUE
    /\ InitStores

NextRate ==
    \/ \E req \in RateRequests : Receive(req)
    \/ \E req \in RateRequests, a \in RateAnswers : Answer(req, a)
    \/ \E t \in RateTimes : Tick(t)

SpecRate == InitRate /\ [][NextRate]_vars

-----------------------------------------------------------------------------
(* SpecSame: as SpecRate, with every request carrying the same text.        *)

SameRequests == {Request("POST", JsonBody(JString(TextHi), JUndefined))}

NextSame ==
    \/ \E req \in SameRequests : Receive(req)
    \/ \E req \in SameRequests, a \in RateAnswers : Answer(req, a)
    \/ \E t \in RateTimes : Tick(t)

SpecSame == InitRate /\ [][NextSame]_vars

-----------------------------------------------------------------------------
(* SpecSlide: requests of one client key whose upstream call always fails,  *)
(* so that every request reaches the limiter, at the start of a window, at  *)
(* its last instant and just after it; the instant of every admission is    *)
(* recorded.                                                                *)

SlideAnswers == {Http(500, NotJson)}

SlideTimes == {0, RATE_LIMIT_WINDOW_MS, RATE_LIMIT_WINDOW_MS + 1}

NextSlide ==
    \/ \E req \in SameRequests : ReceiveLogged(req)
    \/ \E req \in SameRequests, a \in SlideAnswers : Answer(req, a)
    \/ \E t \in SlideTimes : Tick(t)

SpecSlide == InitRate /\ [][NextSlide]_vars

-----------------------------------------------------------------------------
(* SpecTtl: as SpecSame, at instants around the end of a cache entry's      *)
(* time to live.                                                            *)

TtlTimes == {0, CACHE_TTL_MS - 1, CACHE_TTL_MS, CACHE_TTL_MS + 1}

NextTtl ==
    \/ \E req \in SameRequests : Receive(req)
    \/ \E req \in SameRequests, a \in RateAnswers : Answer(req, a)
    \/ \E t \in TtlTimes : Tick(t)

SpecTtl == InitRate /\ [][NextTtl]_vars

-----------------------------------------------------------------------------
(* SpecCollide: requests over texts that share a cache key, with the same   *)
(* normalized form or not, and an upstream that answers with one of two     *)
(* valid results or fails.                                                  *)

CollideRequests ==
    {Request("POST", JsonBody(JString(t), JUndefined)) :
        t \in {TextAz, TextBBracket, TextAzSpaced}}

CollideAnswers ==
    {Http(500, NotJson), Http(200, Content(<<PValue(GoodResult)>>)),
     Http(200, Content(<<PValue(OtherGoodResult)>>))}

NextCollide ==
    \/ \E req \in CollideRequests : Receive(req)
    \/ \E req \in CollideRequests, a \in CollideAnswers : Answer(req, a)
    \/ \E t \in Times : Tick(t)

SpecCollide == InitRate /\ [][NextCollide]_vars

-----------------------------------------------------------------------------
(* SpecCap: the process after one client has had 99 distinct texts          *)
(* translated, 10 in each of nine rate-limit windows and 9 in the tenth,    *)
(* and then asks for further texts.                                         *)

(* the n-th of the three-letter texts over five letters, n in 1..125; their *)
(* cache keys differ                                                        *)
FillLetters == <<"a", "b", "h", "i", "o">>

FillText(n) ==
    << FillLetters[((n - 1) \div 25) + 1],
       FillLetters[(((n - 1) \div 5) % 5) + 1],
       FillLetters[((n - 1) % 5) + 1] >>

(* the start of the w-th window of the client, w = 0, 1, ... *)
WindowStart(w) == w * (RATE_LIMIT_WINDOW_MS + 1)

FilledCount == CACHE_MAX_SIZE - 1

FilledCache ==
    [n \in 1..FilledCount |->
        [key |-> getCacheKey(FillText(n)), result |-> GoodResult,
         timestamp |-> WindowStart((n - 1) \div RATE_LIMIT_REQUESTS),
         normalizedText |-> normalizeText(FillText(n))]]

FilledWindow == (FilledCount - 1) \div RATE_LIMIT_REQUESTS

FilledInWindow == FilledCount - FilledWindow * RATE_LIMIT_REQUESTS

CapRequests ==
    {Request("POST", JsonBody(JString(FillText(n)), JUndefined)) :
        n \in (FilledCount + 1)..(FilledCount + 3)}

CapAnswers == {Http(200, Content(<<PValue(GoodResult)>>))}

CapTimes == {WindowStart(FilledWindow), WindowStart(FilledWindow + 1)}

InitCap ==
    /\ killSwitch = FALSE
    /\ apiKeySet = TRUE
    /\ now = WindowStart(FilledWindow)
    /\ rateLimitStore =
          MapSet(EmptyMap, clientKey(JUndefined),
                 [count |-> FilledInWindow, windowStart |-> WindowStart(FilledWindow)])
    /\ cacheStore = FilledCache
    /\ inflight = EmptyBag
    /\ last = NoLast
    /\ admitted = MapSet(EmptyMap, clientKey(JUndefined), FilledInWindow)
    /\ admissionLog = EmptyBag
    /\ client = ClientIdle
    /\ screen = ScreenIdle

NextCap ==
    \/ \E req \in CapRequests : Receive(req)
    \/ \E req \in CapRequests, a \in CapAnswers : Answer(req, a)
    \/ \E t \in CapTimes : Tick(t)

SpecCap == InitCap /\ [][NextCap]_vars

-----------------------------------------------------------------------------
(* SpecValid: POSTs whose text is missing, not a string, blank, or at or    *)
(* over the limits of the validator, with an upstream that succeeds.        *)

ValidRequests ==
    {Request("POST", JsonBody(t, JUndefined)) : t \in
        {JUndefined, JNull, JNumber(5)} \cup
        {JString(x) : x \in {TextEmpty, TextBlank, TextMaxLength, TextPadded,
                             TextTooLong, TextMaxWords, TextTooManyWords,
                             TextLongAndWordy}}}

NextValid ==
    \/ \E req \in ValidRequests : Receive(req)
    \/ \E req \in ValidRequests, a \in CapAnswers : Answer(req, a)
    \/ \E t \in Times : Tick(t)

SpecValid == InitRate /\ [][NextValid]_vars

-----------------------------------------------------------------------------
(* SpecUpstream: requests for one text and an upstream that answers with a  *)
(* success or with one of several other statuses, each with a body that is  *)
(* not JSON or with a body that carries a valid result.                     *)

UpstreamStatuses == {200, 301, 404, 429, 500, 503}

UpstreamAnswers ==
    {Http(st, raw) : st \in UpstreamStatuses,
                     raw \in {NotJson, Content(<<PValue(GoodResult)>>)}}

NextUpstream ==
    \/ \E req \in SameRequests : Receive(req)
    \/ \E req \in SameRequests, a \in UpstreamAnswers : Answer(req, a)
    \/ \E t \in Times : Tick(t)

SpecUpstream == InitRate /\ [][NextUpstream]_vars

-----------------------------------------------------------------------------
(* SpecKeys: requests from two remote addresses, without a deviceId or with *)
(* the deviceId "anonymous", and an upstream that fails.                    *)

KeyRequests ==
    {RequestFrom("POST", JsonBody(JString(TextHi), d), a) :
        d \in {JUndefined, JString("anonymous")}, a \in {"ip1", "ip2"}}

NextKeys ==
    \/ \E req \in KeyRequests : Receive(req)
    \/ \E req \in KeyRequests, a \in SlideAnswers : Answer(req, a)
    \/ \E t \in Times : Tick(t)

SpecKeys == InitRate /\ [][NextKeys]_vars

-----------------------------------------------------------------------------
(* SpecWait: as SpecSame, at instants around the time the client waits for  *)
(* a response.                                                              *)

WaitTimes == {0, REQUEST_TIMEOUT_MS, REQUEST_TIMEOUT_MS + 1}

NextWait ==
    \/ \E req \in SameRequests : Receive(req)
    \/ \E req \in SameRequests, a \in RateAnswers : Answer(req, a)
    \/ \E t \in WaitTimes : Tick(t)

SpecWait == InitRate /\ [][NextWait]_vars

-----------------------------------------------------------------------------
(* SpecMethod: requests of several methods, with a body that is JSON or     *)
(* not, with the kill switch on or off.                                     *)

Methods == {"OPTIONS", "GET", "PUT", "DELETE", "POST"}

MethodRequests ==
    {Request(m, b) : m \in Methods,
                     b \in {MalformedBody, JsonBody(JString(TextHi), JUndefined)}}

NextMethod ==
    \/ \E req \in MethodRequests : Receive(req)
    \/ \E req \in MethodRequests, a \in RateAnswers : Answer(req, a)
    \/ \E t \in Times : Tick(t)

SpecMethod == Init /\ [][NextMethod]_vars

-----------------------------------------------------------------------------
(* SpecCold: as SpecSame at two instants, with fresh instances started      *)
(* between requests and the instant of every admission recorded.            *)

NextCold ==
    \/ \E req \in SameRequests : ReceiveLogged(req)
    \/ \E req \in SameRequests, a \in RateAnswers : Answer(req, a)
    \/ \E t \in Times : Tick(t)
    \/ ColdStart

SpecCold == InitRate /\ [][NextCold]_vars

-----------------------------------------------------------------------------
(* SpecDevices: requests of two devices for one text, whose upstream call   *)
(* always fails, so that every request reaches the limiter.                 *)

Devices == {"d1", "d2"}

DeviceRequests ==
    {Request("POST", JsonBody(JString(TextHi), JString(d))) : d \in Devices}

NextDevices ==
    \/ \E req \in DeviceRequests : Receive(req)
    \/ \E req \in DeviceRequests, a \in SlideAnswers : Answer(req, a)
    \/ \E t \in Times : Tick(t)

SpecDevices == InitRate /\ [][NextDevices]_vars

-----------------------------------------------------------------------------
(* SpecExpire: requests of one client for two texts, one of them sent with  *)
(* capitals and blanks around it, at an instant and after the time to live  *)
(* of what was cached at that instant.                                      *)

ExpireRequests ==
    {Request("POST", JsonBody(JString(t), JUndefined)) : t \in {TextHiSpaced, TextYo}}

ExpireTimes == {0, CACHE_TTL_MS + 1}

NextExpire ==
    \/ \E req \in ExpireRequests : Receive(req)
    \/ \E req \in ExpireRequests, a \in RateAnswers : Answer(req, a)
    \/ \E t \in ExpireTimes : Tick(t)

SpecExpire == InitRate /\ [][NextExpire]_vars

-----------------------------------------------------------------------------
(* SpecVariant: the endpoint of part_001 with requests of one client for    *)
(* one text and upstream answers that are complete, partial, wrapped in     *)
(* prose, or no JSON.                                                       *)

VariantAnswers ==
    {Rejected, Http(500, NotJson), Http(200, NotJson),
     Http(200, Envelope(JUndefined)), Http(200, Envelope(JNumber(5)))}
    \cup {Http(200, Content(ps)) : ps \in
            { <<PProse>>,
              <<POpen, PProse>>,
              <<PValue(GoodResult)>>,
              <<PValue(FiveResult)>>,
              <<PProse, PValue(NullDetectedResult), PProse>> }}

NextVariant ==
    \/ \E req \in SameRequests : ReceiveVariant(req)
    \/ \E req \in SameRequests, a \in VariantAnswers : AnswerVariant(req, a)
    \/ \E t \in Times : Tick(t)

SpecVariant == InitRate /\ [][NextVariant]_vars

-----------------------------------------------------------------------------
(* SpecClient: the app's client calling the handler, one call at a time,    *)
(* with texts that are missing, not strings, blank, valid or too long, at   *)
(* instants around the client's timeout.                                    *)

ClientTexts ==
    {JUndefined, JNumber(5), JString(TextBlank), JString(TextHi), JString(TextTooLong)}

ClientRequests == {clientRequest(t) : t \in {JString(TextHi), JString(TextTooLong)}}

ClientAnswers ==
    {Http(500, NotJson), Http(200, Envelope(JUndefined)),
     Http(200, Content(<<PValue(GoodResult)>>))}

GatewayReplies ==
    {[status |-> 502, body |-> [json |-> FALSE]],
     [status |-> 502, body |-> [json |-> TRUE, value |-> JObject(<< >>)]],
     [status |-> 200, body |-> [json |-> TRUE, value |-> JNull]],
     [status |-> 200, body |-> [json |-> TRUE, value |-> JObject(<< >>)]]}

InitClient ==
    /\ killSwitch = FALSE
    /\ apiKeySet = TRUE
    /\ now = 0
    /\ rateLimitStore = EmptyMap
    /\ cacheStore = <<>>
    /\ inflight = EmptyBag
    /\ last = NoLast
    /\ admitted = EmptyMap
    /\ admissionLog = EmptyBag
    /\ \E c \in BOOLEAN : client = [ClientIdle EXCEPT !.configured = c]
    /\ screen = ScreenIdle

NextClient ==
    \/ \E text \in ClientTexts : ClientCall(text)
    \/ ClientServe
    \/ \E req \in ClientRequests, a \in ClientAnswers : ClientAnswer(req, a)
    \/ \E reply \in GatewayReplies : ClientGateway(reply)
    \/ ClientHeaders
    \/ ClientBody
    \/ ClientAbort
    \/ \E error \in {NetworkFailure, OtherFailure} : ClientFails(error)
    \/ \E t \in WaitTimes : ClientTick(t)

SpecClient == InitClient /\ [][NextClient]_vars

-----------------------------------------------------------------------------
(* SpecScreen: the screen with texts that are empty, blank, equal or equal  *)
(* after trimming, and calls of translateWithOpenAI that return or throw.   *)

ScreenTexts == {TextEmpty, TextBlank, TextAz, TextAzSpaced, TextYo}

NextScreen ==
    \/ \E text \in ScreenTexts : PerformTranslation(text)
    \/ \E text \in ScreenTexts, outcome \in {"return", "throw"} :
          AttemptCompletes(trim(text), outcome)
    \/ HandleClear

SpecScreen == InitRate /\ [][NextScreen]_vars

-----------------------------------------------------------------------------
(* Properties of the handler.                                               *)

LastIsPost == last.req.method = "POST"

NothingInflight == inflight = EmptyBag

(* C1: with the kill switch enabled, every POST is answered 503             *)
(* SERVICE_DISABLED, no request is ever suspended at an upstream call, and  *)
(* the rate-limit store and the cache stay as they were at process start.   *)
KillSwitchAnswers503 ==
    killSwitch =>
        /\ LastIsPost => /\ last.stage = "killSwitch"
                         /\ last.response.status = 503
                         /\ last.response.code = "SERVICE_DISABLED"
        /\ NothingInflight
        /\ rateLimitStore = EmptyMap
        /\ cacheStore = <<>>

KillSwitchHit ==
    /\ killSwitch
    /\ last.req = Request("POST", JsonBody(JString(TextHi), JUndefined))
    /\ last.response.status = 503

(* The structure the endpoint promises for an output. *)
IsString(x) == x.k = "string"

WellFormedSlangWord(sw) ==
    /\ sw.k = "object"
    /\ {"word", "definition"} \subseteq DOMAIN sw.f
    /\ IsString(sw.f.word) /\ IsString(sw.f.definition)

WellFormedTranslation(t) ==
    /\ t.k = "object"
    /\ {"generation", "text", "slangWords"} \subseteq DOMAIN t.f
    /\ IsString(t.f.generation) /\ IsString(t.f.text)
    /\ t.f.slangWords.k = "array"
    /\ \A i \in DOMAIN t.f.slangWords.items :
          WellFormedSlangWord(t.f.slangWords.items[i])

WellFormedResult(x) ==
    /\ x.k = "object"
    /\ {"detectedGeneration", "originalText", "translations"} \subseteq DOMAIN x.f
    /\ IsString(x.f.detectedGeneration) /\ IsString(x.f.originalText)
    /\ x.f.translations.k = "array"
    /\ Len(x.f.translations.items) = 6
    /\ \A i \in DOMAIN x.f.translations.items :
          WellFormedTranslation(x.f.translations.items[i])

(* The answer got as far as a parsed value: a 2xx status, a JSON envelope,  *)
(* a non-empty content that parses directly or through the brace recovery. *)
AnswerParsed(answer) ==
    /\ answer.kind = "response"
    /\ responseOk(answer.status)
    /\ answer.raw.json
    /\ resultTextOf(answer.raw.content) # <<>>
    /\ parseResultText(resultTextOf(answer.raw.content)).ok

ParsedValue(answer) == parseResultText(resultTextOf(answer.raw.content)).value

(* C2: a 200 response that comes from an upstream call carries a            *)
(* well-formed output with exactly 6 translations; a parsed upstream value  *)
(* that deviates is answered 500 INCOMPLETE_RESPONSE, is not the output and *)
(* is not in the cache.                                                     *)
UpstreamOutputWellFormed ==
    /\ (last.answer # NoAnswer /\ last.response.status = 200)
          => WellFormedResult(last.response.output)
    /\ (AnswerParsed(last.answer) /\ ~WellFormedResult(ParsedValue(last.answer)))
          => /\ last.response.status = 500
             /\ last.response.code = "INCOMPLETE_RESPONSE"
             /\ last.response.output = JUndefined
    /\ \A i \in DOMAIN cacheStore : WellFormedResult(cacheStore[i].result)

FiveTranslationsRefused ==
    /\ last.answer = Http(200, Content(<<PValue(FiveResult)>>))
    /\ last.response.code = "INCOMPLETE_RESPONSE"

GenerationsOf(x) ==
    [i \in DOMAIN x.f.translations.items |-> x.f.translations.items[i].f.generation.s]

(* C3: every output the endpoint returns, fresh or cached, has pairwise     *)
(* distinct generation values, each one of the six generations.             *)
OutputGenerationsDistinct ==
    last.response.status = 200 =>
        LET g == GenerationsOf(last.response.output)
        IN  /\ \A i \in DOMAIN g : g[i] \in Generations
            /\ \A i, j \in DOMAIN g : i # j => g[i] # g[j]

-----------------------------------------------------------------------------
(* Properties of the cache and of the rate limiter.  A step of the handler  *)
(* from a request's arrival is seen in the state it leads to: last holds    *)
(* the request and what the handler did with it.                            *)

Arrived ==
    /\ last'.stage # "none"
    /\ last'.answer = NoAnswer
    /\ (last' # last \/ rateLimitStore' # rateLimitStore \/ inflight' # inflight)

ArrivedText == last'.req.body.text.s

ArrivedKey == clientKey(last'.req.body.deviceId)

(* the arrived request got past validation and the cache lookup *)
ArrivedAtLimiter == Arrived /\ last'.stage \in {"rateLimit", "apiKey", "upstream"}

LastKey == clientKey(last.req.body.deviceId)

(* the cache holds an entry stored for the text that has not reached its TTL *)
LiveEntries(text) ==
    {i \in DOMAIN cacheStore :
        /\ cacheStore[i].key = getCacheKey(text)
        /\ cacheStore[i].normalizedText = normalizeText(text)
        /\ now - cacheStore[i].timestamp < CACHE_TTL_MS}

(* C4: after a POST with text T has succeeded through the upstream, a       *)
(* second POST with the same T before the TTL is over is answered 200 with  *)
(* the same output and cached: true, makes no upstream call and leaves the  *)
(* rate-limit store as it was.                                              *)
SecondCallServedFromCache ==
    [][ ( /\ last.stage = "done"
          /\ now - last.at < CACHE_TTL_MS
          /\ Arrived
          /\ last'.req.method = "POST"
          /\ last'.req.body.k = "json"
          /\ last'.req.body.text = last.req.body.text )
        => ( /\ last'.response.status = 200
             /\ last'.response.output = last.response.output
             /\ last'.response.cached = "true"
             /\ inflight' = inflight
             /\ rateLimitStore' = rateLimitStore ) ]_vars

SecondCallHit ==
    /\ last.stage = "cache"
    /\ last.req.body.text.s = TextHi
    /\ last.response.output = GoodResult
    /\ rateLimitStore[LastKey].count = 1

(* C5: a request whose text has a live cache entry is answered 200 with     *)
(* cached: true whatever the caller's rate-limit entry is, also at the      *)
(* quota, and the rate-limit store is left as it was.                       *)
CacheHitBeforeLimiter ==
    [][ ( /\ Arrived
          /\ last'.stage \in {"cache", "rateLimit", "apiKey", "upstream"}
          /\ LiveEntries(ArrivedText) # {} )
        => ( /\ last'.stage = "cache"
             /\ last'.response.status = 200
             /\ last'.response.cached = "true"
             /\ \E i \in LiveEntries(ArrivedText) :
                   last'.response.output = cacheStore[i].result
             /\ rateLimitStore' = rateLimitStore ) ]_vars

CacheHitAtQuota ==
    /\ last.stage = "cache"
    /\ last.response.cached = "true"
    /\ LastKey \in DOMAIN rateLimitStore
    /\ rateLimitStore[LastKey].count = RATE_LIMIT_REQUESTS
    /\ now - rateLimitStore[LastKey].windowStart < RATE_LIMIT_WINDOW_MS

(* C6 as claimed: requests that all carry the same text consume at most one *)
(* unit of the key's count per window and are never denied.                 *)
IdenticalQueriesChargedOnce ==
    /\ \A key \in DOMAIN rateLimitStore : rateLimitStore[key].count <= 1
    /\ last.stage # "rateLimit"

(* C6, amended: while the cache holds a live entry for the text, requests   *)
(* that carry it are served from the cache, consume no unit and are not     *)
(* denied.                                                                  *)
CachedQueriesAreFree ==
    [][ LiveEntries(TextHi) # {}
        => ( /\ rateLimitStore' = rateLimitStore
             /\ admitted' = admitted
             /\ Arrived => last'.stage = "cache" ) ]_vars

CachedQueryAfterFailures ==
    /\ last.stage = "cache"
    /\ LiveEntries(TextHi) # {}
    /\ rateLimitStore[LastKey].count = 3

(* the entry of the key in the state before the step, inside its window *)
InsideWindow(key) ==
    /\ key \in DOMAIN rateLimitStore
    /\ now - rateLimitStore[key].windowStart < RATE_LIMIT_WINDOW_MS

(* C7: inside one window the limiter admits the first 10 cache-missing      *)
(* requests of a key and denies every later one with 429 RATE_LIMITED; a    *)
(* denied request is not suspended at an upstream call.                     *)
TenAdmittedThenDenied ==
    [][ (ArrivedAtLimiter /\ InsideWindow(ArrivedKey))
        => IF admitted[ArrivedKey] < 10
           THEN /\ last'.stage # "rateLimit"
                /\ admitted'[ArrivedKey] = admitted[ArrivedKey] + 1
           ELSE /\ last'.stage = "rateLimit"
                /\ last'.response.status = 429
                /\ last'.response.code = "RATE_LIMITED"
                /\ inflight' = inflight
                /\ admitted' = admitted ]_vars

EleventhDenied ==
    /\ last.stage = "rateLimit"
    /\ last.response.status = 429
    /\ admitted[LastKey] = 10
    /\ InsideWindow(LastKey)

(* C8: a denial at time t for an entry {count, windowStart} reports         *)
(* ceil((windowStart + windowMs - t) / 1000) seconds, and at least 1.       *)
RetryAfterAtLeastOne ==
    last.stage = "rateLimit" =>
        /\ last.response.retryAfter.k = "number"
        /\ last.response.retryAfter.n >= 1
        /\ last.response.retryAfter.n =
              mathMax(1, mathCeilDiv(rateLimitStore[LastKey].windowStart
                                        + RATE_LIMIT_WINDOW_MS - last.at, 1000))

(* C9: a request at time t for a key whose entry has                        *)
(* t - windowStart >= 3,600,000 is allowed whatever the stored count and    *)
(* replaces the entry with {count: 1, windowStart: t}.                      *)
ElapsedWindowResets ==
    [][ ( /\ ArrivedAtLimiter
          /\ ArrivedKey \in DOMAIN rateLimitStore
          /\ now - rateLimitStore[ArrivedKey].windowStart >= 3600000 )
        => ( /\ last'.stage # "rateLimit"
             /\ rateLimitStore'[ArrivedKey] = [count |-> 1, windowStart |-> now] ) ]_vars

(* C10: after a denial at time t with retryAfter r, the next request of the *)
(* key that reaches the limiter at a time t' >= t + r * 1000 is admitted.   *)
RetryHintSuffices ==
    [][ ( /\ last.stage = "rateLimit"
          /\ ArrivedAtLimiter
          /\ ArrivedKey = LastKey
          /\ now >= last.at + last.response.retryAfter.n * 1000 )
        => last'.stage # "rateLimit" ]_vars

(* The requests of the key that passed the limiter at an instant t with     *)
(* from < t <= to                                                           *)
admissionsWithin(key, from, to) ==
    LET inside == {e \in BagToSet(admissionLog) :
                      e[1] = key /\ from < e[2] /\ e[2] <= to}
    IN  BagCardinality([e \in inside |-> admissionLog[e]])

(* C11: for every client key and every interval of 60 minutes, aligned with *)
(* windowStart or not, the limiter admits at most 10 requests of the key.   *)
SlidingHourlyQuota ==
    \A key \in DOMAIN rateLimitStore :
        admissionsWithin(key, now - RATE_LIMIT_WINDOW_MS, now) <= RATE_LIMIT_REQUESTS
(* the arrived request got past validation, to the cache lookup *)
ArrivedAtCache ==
    /\ Arrived
    /\ last'.stage \in {"cache", "rateLimit", "apiKey", "upstream"}

(* the index of the entry stored under the key of the arrived text, or 0 *)
ArrivedEntry == cacheIndex(cacheStore, getCacheKey(ArrivedText))

(* C12: an entry created at time T is returned by a lookup at every time up *)
(* to and including T + TTL - 1 ms; at T + TTL and at every later time the  *)
(* lookup is a miss and deletes the entry.                                  *)
CacheTtlBoundary ==
    [][ ( /\ ArrivedAtCache
          /\ ArrivedEntry # 0
          /\ cacheStore[ArrivedEntry].normalizedText = normalizeText(ArrivedText) )
        => IF now <= cacheStore[ArrivedEntry].timestamp + CACHE_TTL_MS - 1
           THEN /\ last'.stage = "cache"
                /\ last'.response.output = cacheStore[ArrivedEntry].result
           ELSE /\ last'.stage # "cache"
                /\ cacheIndex(cacheStore', getCacheKey(ArrivedText)) = 0 ]_vars
(* the step stored the entry: the upstream result of a request, saved under *)
(* the normalized form of the request's text                                *)
PutBy(entry) ==
    /\ last'.stage = "done"
    /\ entry.result = last'.response.output
    /\ entry.normalizedText = normalizeText(last'.req.body.text.s)

(* C13: a lookup returns a result only if a put whose text has the same     *)
(* normalized form stored that result; when the entry under the key of the  *)
(* text was stored for another normalized form, the lookup is a miss.       *)
NoWrongCachedTranslation ==
    [][ /\ \A i \in DOMAIN cacheStore' :
              \/ \E j \in DOMAIN cacheStore : cacheStore'[i] = cacheStore[j]
              \/ PutBy(cacheStore'[i])
        /\ ( ArrivedAtCache /\ last'.stage = "cache" )
              => \E j \in DOMAIN cacheStore :
                    /\ cacheStore[j].normalizedText = normalizeText(ArrivedText)
                    /\ cacheStore[j].result = last'.response.output
        /\ ( /\ ArrivedAtCache
             /\ ArrivedEntry # 0
             /\ cacheStore[ArrivedEntry].normalizedText # normalizeText(ArrivedText) )
              => last'.stage # "cache" ]_vars

CollidingReadMissed ==
    /\ last.stage = "upstream"
    /\ last.req.body.text.s = TextBBracket
    /\ \E i \in DOMAIN cacheStore :
          /\ cacheStore[i].key = getCacheKey(TextBBracket)
          /\ cacheStore[i].normalizedText = normalizeText(TextAzSpaced)
          /\ ~cacheExpired(now, cacheStore[i].timestamp)
(* C14: after any sequence of puts the cache holds at most 100 entries.     *)
CacheSizeCap == Len(cacheStore) <= CACHE_MAX_SIZE
(* a POST with a JSON body arrived *)
ArrivedPost ==
    /\ Arrived
    /\ last'.req.method = "POST"
    /\ last'.req.body.k = "json"

(* the step left the cache, the limiter and the suspended calls alone *)
NothingTouched ==
    /\ cacheStore' = cacheStore
    /\ rateLimitStore' = rateLimitStore
    /\ inflight' = inflight

(* the words of a text: the places where a run of non-blank characters starts *)
WordStarts(s) ==
    {i \in 1..Len(s) : s[i] \notin Whitespace /\ (i = 1 \/ s[i - 1] \in Whitespace)}

IsBlank(s) == \A i \in 1..Len(s) : s[i] \in Whitespace

(* C15: a POST whose text has a trimmed length over 80 is answered 400      *)
(* INPUT_TOO_LONG, and its handling leaves the cache and the rate-limit     *)
(* store as they were and makes no upstream call.                           *)
TooLongRefused ==
    [][ ( /\ ArrivedPost
          /\ last'.req.body.text.k = "string"
          /\ Len(trim(ArrivedText)) > MAX_CHARACTERS )
        => ( /\ last'.stage = "validation"
             /\ last'.response.status = 400
             /\ last'.response.code = "INPUT_TOO_LONG"
             /\ NothingTouched ) ]_vars

TooLongRefusedWhileBusy ==
    /\ last.stage = "validation"
    /\ last.response.code = "INPUT_TOO_LONG"
    /\ last.req.body.text.s = TextLongAndWordy
    /\ cacheStore # << >>
    /\ inflight # EmptyBag

(* C16, as stated: every text with more than 20 whitespace-separated tokens *)
(* fails validation with 400 TOO_MANY_WORDS.                                *)
TooManyWordsRefused ==
    [][ ( /\ ArrivedPost
          /\ last'.req.body.text.k = "string"
          /\ Cardinality(WordStarts(ArrivedText)) > MAX_WORDS )
        => ( /\ last'.response.status = 400
             /\ last'.response.code = "TOO_MANY_WORDS" ) ]_vars

(* C16, amended: every text with more than 20 tokens fails validation with  *)
(* status 400; the code is TOO_MANY_WORDS when the trimmed length is at     *)
(* most 80 and INPUT_TOO_LONG when it is over 80.                           *)
TooManyWordsRefusedWithinLength ==
    [][ ( /\ ArrivedPost
          /\ last'.req.body.text.k = "string"
          /\ Cardinality(WordStarts(ArrivedText)) > MAX_WORDS )
        => ( /\ last'.stage = "validation"
             /\ last'.response.status = 400
             /\ last'.response.code =
                    IF Len(trim(ArrivedText)) <= MAX_CHARACTERS
                    THEN "TOO_MANY_WORDS" ELSE "INPUT_TOO_LONG" ) ]_vars

TooManyWordsSeen ==
    /\ last.stage = "validation"
    /\ last.response.code = "TOO_MANY_WORDS"
    /\ last.req.body.text.s = TextTooManyWords

(* C17: a POST whose text is missing, not a string, empty or blank is       *)
(* answered 400 INVALID_INPUT with the cache, the rate-limit store and the  *)
(* upstream left alone; a text passes the validator exactly when it is not  *)
(* blank, has a trimmed length of at most 80 and has at most 20 words.      *)
BlankRefusedAndLimitsExact ==
    [][ ArrivedPost =>
          LET text == last'.req.body.text
              blank == text.k # "string" \/ IsBlank(text.s)
          IN  /\ blank => ( /\ last'.stage = "validation"
                            /\ last'.response.status = 400
                            /\ last'.response.code = "INVALID_INPUT"
                            /\ NothingTouched )
              /\ last'.stage # "validation"
                    <=> ( /\ ~blank
                          /\ Len(trim(text.s)) <= MAX_CHARACTERS
                          /\ Cardinality(WordStarts(text.s)) <= MAX_WORDS ) ]_vars

BlankRefusedWhileBusy ==
    /\ last.stage = "validation"
    /\ last.response.code = "INVALID_INPUT"
    /\ last.req.body.text = JString(TextBlank)
    /\ cacheStore # << >>
    /\ inflight # EmptyBag
(* C18: a POST whose body is not parseable as JSON is answered 400 with     *)
(* code VALIDATION_ERROR, never with a 5xx status.                          *)
MalformedBodyAnswered400 ==
    ( /\ ~killSwitch
      /\ last.req.method = "POST"
      /\ last.req.body.k = "malformed" )
    => ( /\ last.response.status = 400
         /\ last.response.code = "VALIDATION_ERROR" )
(* the upstream answered a suspended request in this step *)
Answered ==
    /\ last'.answer.kind = "response"
    /\ inflight' # inflight

(* C19: an upstream status 429 is answered 429 RATE_LIMITED with retryAfter *)
(* 30, any other status outside 200..299 is answered 500 SERVER_ERROR; in   *)
(* both cases the cache is left alone and the response is the same whatever *)
(* the body of the upstream answer.                                         *)
UpstreamFailureMapped ==
    [][ ( /\ Answered
          /\ (last'.answer.status < 200 \/ last'.answer.status > 299) )
        => ( /\ last'.response =
                   IF last'.answer.status = 429
                   THEN ErrorResponse(429, "RATE_LIMITED", JNumber(30))
                   ELSE ErrorResponse(500, "SERVER_ERROR", JUndefined)
             /\ cacheStore' = cacheStore ) ]_vars

UpstreamBusyWithValidBody ==
    /\ last.answer = Http(429, Content(<<PValue(GoodResult)>>))
    /\ last.response.status = 429
    /\ last.response.retryAfter = JNumber(30)
    /\ cacheStore = << >>

(* the body of a successful upstream answer cannot be parsed: the envelope  *)
(* is not JSON, or the trimmed content, empty or absent included, parses    *)
(* neither as it is nor from its first "{" on                               *)
ParseFails(answer) ==
    \/ ~answer.raw.json
    \/ LET text == resultTextOf(answer.raw.content)
       IN  /\ ~jsonParse(text).ok
           /\ (braceMatch(text) = << >> \/ ~jsonParse(braceMatch(text)).ok)

AnsweredUnparsable ==
    /\ Answered
    /\ last'.answer.status >= 200
    /\ last'.answer.status <= 299
    /\ ParseFails(last'.answer)

(* C20, as stated: when the envelope is not JSON or the trimmed content,    *)
(* empty or absent included, cannot be parsed directly or by the recovery,  *)
(* the endpoint fails with PARSE_ERROR, never answers 200 and writes        *)
(* nothing to the cache.                                                    *)
ParseFailureIsParseError ==
    [][ AnsweredUnparsable
        => ( /\ last'.response.status # 200
             /\ last'.response.code = "PARSE_ERROR"
             /\ cacheStore' = cacheStore ) ]_vars

(* C20, amended: such an answer fails with status 500, with code            *)
(* INCOMPLETE_RESPONSE when the envelope is JSON and the trimmed content is *)
(* empty or absent and with code PARSE_ERROR otherwise; it never yields a   *)
(* 200 or a cache write.                                                    *)
ParseFailureNeverSucceeds ==
    [][ AnsweredUnparsable
        => ( /\ last'.response =
                   ErrorResponse(500,
                       IF /\ last'.answer.raw.json
                          /\ resultTextOf(last'.answer.raw.content) = << >>
                       THEN "INCOMPLETE_RESPONSE" ELSE "PARSE_ERROR",
                       JUndefined)
             /\ cacheStore' = cacheStore ) ]_vars

RecoveryFailed ==
    /\ last.answer = Http(200, Content(<<POpen, PValue(GoodResult)>>))
    /\ last.stage = "parse"
    /\ last.response.code = "PARSE_ERROR"
(* the Retry-After response header carries the number of seconds n *)
HasRetryAfterHeader(response, n) ==
    /\ "Retry-After" \in DOMAIN response.headers
    /\ response.headers["Retry-After"] = n

SuccessBodyHasCachedFlag ==
    last.response.status = 200 =>
        /\ last.response.output # JUndefined
        /\ last.response.cached \in {"true", "false"}
        /\ last.response.cached = "true" <=> last.stage = "cache"
(* the client a request is to be counted for: its deviceId when it supplies *)
(* a non-empty one, otherwise its remote address                            *)
SourceOf(req) ==
    IF req.body.deviceId.k = "string" /\ req.body.deviceId.s # ""
    THEN <<"device", req.body.deviceId.s>>
    ELSE <<"ip", req.address>>

(* C23: the rate-limit key is device:<deviceId>, else ip:<address>, else    *)
(* "anonymous"; so the requests suspended at the upstream, all of them      *)
(* admitted, are counted in as many entries as they have distinct clients:  *)
(* two addresses without a deviceId have two entries, and a supplied        *)
(* deviceId never shares the entry of a client without one.                 *)
ClientsCountedApart ==
    Cardinality(DOMAIN rateLimitStore)
        >= Cardinality({SourceOf(req) : req \in BagToSet(inflight)})
(* the step started an upstream call *)
CallStarted == BagCardinality(inflight') > BagCardinality(inflight)

(* a text the validator lets through *)
WithinLimits(text) ==
    /\ text.k = "string"
    /\ ~IsBlank(text.s)
    /\ Len(trim(text.s)) <= MAX_CHARACTERS
    /\ Cardinality(WordStarts(text.s)) <= MAX_WORDS

(* C24: a request makes at most one upstream call, and only after the       *)
(* method check, the kill-switch check, validation, a cache miss and an     *)
(* allow of the limiter, in this order; every failure is answered at once,  *)
(* and an answered upstream call is never followed by another call of the   *)
(* same request.                                                            *)
SingleAttempt ==
    [][ /\ BagCardinality(inflight') <= BagCardinality(inflight) + 1
        /\ CallStarted =>
              /\ Arrived
              /\ last'.stage = "upstream"
              /\ inflight' = inflight (+) SetToBag({last'.req})
              /\ last'.req.method = "POST"
              /\ ~killSwitch
              /\ last'.req.body.k = "json"
              /\ WithinLimits(last'.req.body.text)
              /\ LiveEntries(ArrivedText) = {}
              /\ ArrivedKey \in DOMAIN rateLimitStore'
              /\ rateLimitStore'[ArrivedKey] # 
                    IF ArrivedKey \in DOMAIN rateLimitStore
                    THEN rateLimitStore[ArrivedKey] ELSE [count |-> 0, windowStart |-> 0]
              /\ rateLimitStore'[ArrivedKey].count <= RATE_LIMIT_REQUESTS
        /\ Arrived =>
              /\ last'.stage = "killSwitch" => last'.req.method = "POST"
              /\ last'.stage \in {"body", "validation"}
                    => last'.req.method = "POST" /\ ~killSwitch
              /\ last'.stage \in {"cache", "rateLimit", "apiKey"}
                    => /\ last'.req.method = "POST" /\ ~killSwitch
                       /\ WithinLimits(last'.req.body.text)
              /\ last'.stage \in {"rateLimit", "apiKey"}
                    => LiveEntries(ArrivedText) = {}
              /\ last'.stage # "rateLimit" /\ last'.stage # "apiKey"
                    /\ last'.stage # "upstream"
                    => rateLimitStore' = rateLimitStore
              /\ last'.stage # "upstream"
                    => last'.response.status # 0 /\ inflight' = inflight
        /\ Answered =>
              /\ inflight' = inflight (-) SetToBag({last'.req})
              /\ BagCardinality(inflight') = BagCardinality(inflight) - 1
              /\ last'.response.status # 0 ]_vars

AnsweredAfterFailure ==
    /\ last.answer = Http(500, NotJson)
    /\ last.response.status = 500
    /\ inflight = EmptyBag
    /\ cacheStore # << >>
(* C25: every request is answered, also when the upstream never answers:    *)
(* the upstream call is bounded by a timeout, so a request whose last step  *)
(* was its suspension at the upstream call is not left waiting beyond it.   *)
UpstreamCallBounded ==
    last.stage = "upstream" => now - last.at <= REQUEST_TIMEOUT_MS
(* C26: an OPTIONS request is answered 204 with an empty body and any other *)
(* method but POST is answered 405 METHOD_NOT_ALLOWED, with the kill switch *)
(* on or off, and the body, the cache, the limiter and the upstream are     *)
(* left alone.                                                              *)
MethodGate ==
    [][ ( Arrived /\ last'.req.method # "POST" )
        => ( /\ last'.stage = "method"
             /\ last'.response =
                   IF last'.req.method = "OPTIONS"
                   THEN EmptyResponse
                   ELSE ErrorResponse(405, "METHOD_NOT_ALLOWED", JUndefined)
             /\ NothingTouched ) ]_vars

MethodRefusedUnderKillSwitch ==
    /\ killSwitch
    /\ last.req = Request("DELETE", MalformedBody)
    /\ last.response.status = 405
(* The status each error code is sent with. *)
StatusOfCode ==
    [c \in {"METHOD_NOT_ALLOWED", "INVALID_INPUT", "INPUT_TOO_LONG",
            "TOO_MANY_WORDS", "RATE_LIMITED", "SERVICE_DISABLED",
            "PARSE_ERROR", "INCOMPLETE_RESPONSE", "SERVER_ERROR"} |->
        CASE c = "METHOD_NOT_ALLOWED" -> 405
          [] c \in {"INVALID_INPUT", "INPUT_TOO_LONG", "TOO_MANY_WORDS"} -> 400
          [] c = "RATE_LIMITED" -> 429
          [] c = "SERVICE_DISABLED" -> 503
          [] OTHER -> 500]

(* A response has been sent (the request is not suspended) and its status   *)
(* is not 2xx.                                                              *)
SentError ==
    /\ last.stage \notin {"none", "upstream"}
    /\ last.response.status \notin 200..299

(* C27: every response that is not 2xx has a string error and a string      *)
(* code, its status is the one of its code's row, and a RATE_LIMITED body   *)
(* has a numeric retryAfter.                                                *)
StableErrorVocabulary ==
    SentError
    => /\ last.response.error.k = "string"
       /\ last.response.code \in DOMAIN StatusOfCode
       /\ last.response.status = StatusOfCode[last.response.code]
       /\ ( last.response.code = "RATE_LIMITED"
            => last.response.retryAfter.k = "number" )

LocalDenialInVocabulary ==
    /\ SentError
    /\ last.stage = "rateLimit"
    /\ last.response.code = "RATE_LIMITED"
(* C28: when both stores are empty, the next valid request misses the       *)
(* cache, is allowed by the limiter as the first request of a window that   *)
(* starts now, and is suspended at its upstream call without an error.      *)
EmptiedStoresHarmless ==
    [][ ( /\ rateLimitStore = EmptyMap
          /\ cacheStore = <<>>
          /\ ArrivedPost
          /\ WithinLimits(last'.req.body.text) )
        => ( /\ last'.stage = "upstream"
             /\ last'.response = Pending
             /\ BagIn(last'.req, inflight')
             /\ rateLimitStore'[ArrivedKey] = [count |-> 1, windowStart |-> now] ) ]_vars

(* a request is at its upstream call as the first of its window although    *)
(* the key had admissions at the same instants before: the stores were      *)
(* emptied in between                                                       *)
AdmittedAfterColdStart ==
    /\ last.stage = "upstream"
    /\ cacheStore = <<>>
    /\ rateLimitStore[LastKey].count = 1
    /\ BagCardinality(admissionLog) >= 2
(* The requests of the key that passed the limiter since its window started *)
admissionsInWindow(key) ==
    admissionsWithin(key, rateLimitStore[key].windowStart - 1, now)

(* C29: with requests of one key suspended at the upstream call while       *)
(* others arrive and are answered, the requests of the key admitted since   *)
(* its window started are at most 10 and as many as the stored count.       *)
NoIncrementLost ==
    \A key \in DOMAIN rateLimitStore :
        /\ admissionsInWindow(key) <= RATE_LIMIT_REQUESTS
        /\ admissionsInWindow(key) = rateLimitStore[key].count

(* the quota is used up, one admitted request has just been answered and    *)
(* another one is still suspended                                           *)
QuotaUsedWhileSuspended ==
    /\ BagCardinality(inflight) >= 1
    /\ last.answer # NoAnswer
    /\ rateLimitStore[LastKey].count = RATE_LIMIT_REQUESTS
(* C30: every entry of the limiter has a count from 1 to 10, and a request  *)
(* the limiter denies leaves the entry of its key as it was, count and      *)
(* windowStart.                                                             *)
CountInRangeAndDenialsInert ==
    [][ /\ \A key \in DOMAIN rateLimitStore' :
              rateLimitStore'[key].count \in 1..RATE_LIMIT_REQUESTS
        /\ ( Arrived /\ last'.stage = "rateLimit" )
           => ( /\ ArrivedKey \in DOMAIN rateLimitStore
                /\ rateLimitStore'[ArrivedKey] = rateLimitStore[ArrivedKey] ) ]_vars

(* a request is denied after the start of its key's window *)
DeniedLaterInWindow ==
    /\ last.stage = "rateLimit"
    /\ rateLimitStore[LastKey].count = RATE_LIMIT_REQUESTS
    /\ rateLimitStore[LastKey].windowStart < last.at
(* C31: a request that reaches the limiter creates or changes only the      *)
(* entry of its own key and leaves the cache alone; whether a request of    *)
(* another key would be allowed is the same before and after.               *)
KeyIsolation ==
    [][ ArrivedAtLimiter
        => ( /\ cacheStore' = cacheStore
             /\ DOMAIN rateLimitStore' = DOMAIN rateLimitStore \cup {ArrivedKey}
             /\ \A k \in Devices \ {ArrivedKey} :
                   /\ k \in DOMAIN rateLimitStore
                        => rateLimitStore'[k] = rateLimitStore[k]
                   /\ checkRateLimit(rateLimitStore', k, now).allowed
                        = checkRateLimit(rateLimitStore, k, now).allowed ) ]_vars

(* one device is denied while the other has used one request of its quota *)
DeniedBesideFreshKey ==
    /\ last.stage = "rateLimit"
    /\ LastKey = "d1"
    /\ "d2" \in DOMAIN rateLimitStore
    /\ rateLimitStore["d2"].count = 1
(* the entries of the cache whose key the step took out of it *)
Gone(putKey) ==
    LET keysAfter == {cacheStore'[j].key : j \in DOMAIN cacheStore'}
    IN  {i \in DOMAIN cacheStore : cacheStore[i].key \notin keysAfter}

(* the entries the step kept under a key other than the one it put *)
Survivors(putKey) ==
    LET entriesAfter == {cacheStore'[j] : j \in DOMAIN cacheStore'}
    IN  {i \in DOMAIN cacheStore :
            cacheStore[i].key # putKey /\ cacheStore[i] \in entriesAfter}

(* the entry that was stored under the key of the put, if any *)
Replaced(putKey) == {i \in DOMAIN cacheStore : cacheStore[i].key = putKey}

(* C32: a put that finds more than 100 entries removes 50 entries, none of  *)
(* them newer than an entry it keeps (an entry under the key of the put     *)
(* may be one of the 50 and is then stored again); a put that finds at most *)
(* 100 entries removes none; a request that does not put leaves every       *)
(* timestamp as it was.                                                     *)
BulkEvictionOrder ==
    [][ IF last'.stage = "done" /\ last' # last
        THEN LET putKey == getCacheKey(last'.req.body.text.s)
                 gone == Gone(putKey)
                 survivors == Survivors(putKey)
                 replaced == Replaced(putKey)
                 oldestKept == {cacheStore[j].timestamp : j \in survivors}
                 notNewer(i) == \A t \in oldestKept : cacheStore[i].timestamp <= t
             IN  IF Len(cacheStore) > CACHE_MAX_SIZE
                 THEN /\ \A i \in gone : notNewer(i)
                      /\ \/ Cardinality(gone) = CACHE_EVICT_COUNT
                         \/ /\ Cardinality(gone) = CACHE_EVICT_COUNT - 1
                            /\ \A i \in replaced : notNewer(i)
                      /\ Cardinality(survivors) + Cardinality(replaced)
                            + Cardinality(gone) = Len(cacheStore)
                 ELSE gone = {}
        ELSE \/ cacheStore' = cacheStore
             \/ \A j \in DOMAIN cacheStore' :
                   \E i \in DOMAIN cacheStore : cacheStore'[j] = cacheStore[i] ]_vars

(* a put has evicted: the cache is smaller than it was filled *)
PutEvicted ==
    /\ last.stage = "done"
    /\ Len(cacheStore) = CACHE_MAX_SIZE + 1 - CACHE_EVICT_COUNT + 1
(* every entry the step leaves in the cache was there before, or the step   *)
(* is the put of a request whose upstream result passed the schema check:   *)
(* the entry holds that result, the normalized form of the request's text   *)
(* and the hash of that form                                                *)
EntriesHaveProvenance ==
    \A i \in DOMAIN cacheStore' :
        \/ \E j \in DOMAIN cacheStore : cacheStore'[i] = cacheStore[j]
        \/ /\ last'.stage = "done"
           /\ last'.response.status = 200
           /\ isValidResult(cacheStore'[i].result)
           /\ cacheStore'[i].result = last'.response.output
           /\ cacheStore'[i].normalizedText = normalizeText(last'.req.body.text.s)
           /\ cacheStore'[i].key
                = mathAbs(hashLoop(<<0, 0>>, cacheStore'[i].normalizedText))

(* the step ran a request to an error response *)
EndedInError ==
    /\ last'.stage # "none"
    /\ last'.response.status \notin {0, 200, 204}
    /\ (last' # last \/ cacheStore' # cacheStore \/ rateLimitStore' # rateLimitStore)

(* C33, as stated: every cache entry was put by a request with a            *)
(* schema-valid upstream result, under the normalized form of its text and  *)
(* the hash of that form, and a request that ends in an error leaves the    *)
(* cache unchanged.                                                         *)
ErrorsLeaveCacheUnchanged ==
    [][ /\ EntriesHaveProvenance
        /\ EndedInError => cacheStore' = cacheStore ]_vars

(* C33: every cache entry was put by a request with a schema-valid upstream *)
(* result, under the normalized form of its text and the hash of that form; *)
(* a request that ends in an error adds no entry and changes none, and the  *)
(* only entry it can remove is the expired entry under the key of its text. *)
ErrorsWriteNoEntry ==
    [][ /\ EntriesHaveProvenance
        /\ EndedInError
           => /\ \A i \in DOMAIN cacheStore' :
                    \E j \in DOMAIN cacheStore : cacheStore'[i] = cacheStore[j]
              /\ \A j \in DOMAIN cacheStore :
                    \/ \E i \in DOMAIN cacheStore' : cacheStore'[i] = cacheStore[j]
                    \/ /\ cacheStore[j].key = getCacheKey(last'.req.body.text.s)
                       /\ cacheExpired(now, cacheStore[j].timestamp) ]_vars

(* a request is denied by the limiter after the time to live of an entry    *)
(* put for its text, and the cache holds no entry under its key             *)
DeniedAfterExpiry ==
    /\ last.stage = "rateLimit"
    /\ last.req.body.text.s = TextYo
    /\ last.at > CACHE_TTL_MS
    /\ cacheIndex(cacheStore, getCacheKey(TextYo)) = 0
    /\ cacheIndex(cacheStore, getCacheKey(TextHiSpaced)) # 0
(* the unexpired entries stored for a text with the normalized form of the  *)
(* given one                                                                *)
StoredFor(text) ==
    {i \in DOMAIN cacheStore :
        /\ cacheStore[i].normalizedText = normalizeText(text)
        /\ ~cacheExpired(now, cacheStore[i].timestamp)}

(* a request whose text has the normalized form of an unexpired entry is    *)
(* answered from the cache with the result of that entry, and normalizing   *)
(* twice gives what normalizing once gives                                  *)
NormalizedHit ==
    ArrivedAtCache
    => /\ normalizeText(normalizeText(ArrivedText)) = normalizeText(ArrivedText)
       /\ \A i \in StoredFor(ArrivedText) :
             /\ last'.stage = "cache"
             /\ last'.response = OkResponse(cacheStore[i].result, "true")

(* C34, as stated: after a successful request for t1, every request before  *)
(* the TTL for a text with the normalized form of t1 is a cache hit with    *)
(* the stored result: an unexpired entry stays stored for its normalized    *)
(* text, and a request that matches it is a hit.                            *)
NormalizedHitUntilTtl ==
    [][ /\ NormalizedHit
        /\ \A i \in DOMAIN cacheStore :
              ~cacheExpired(now, cacheStore[i].timestamp)
              => \E j \in DOMAIN cacheStore' :
                    cacheStore'[j].normalizedText = cacheStore[i].normalizedText ]_vars

(* C34: while the cache holds an unexpired entry stored for a text with the *)
(* normalized form of t2, a request for t2 is a cache hit that returns the  *)
(* result of that entry; normalize is idempotent.                           *)
NormalizedHitWhileStored ==
    [][ NormalizedHit ]_vars

(* a text sent with a blank before it is answered from the cache *)
SpacedTextHit ==
    /\ last.stage = "cache"
    /\ last.req.body.text.s = TextAzSpaced
    /\ last.response.cached = "true"
(* C35: every 200 response of the endpoint of part_001, and every entry it  *)
(* caches, has an output with exactly 6 well-formed translations.           *)
VariantOutputWellFormed ==
    /\ last.response.status = 200 => WellFormedResult(last.response.output)
    /\ \A i \in DOMAIN cacheStore : WellFormedResult(cacheStore[i].result)
(* the reply the resolved call got is a 2xx reply whose body is JSON with   *)
(* an output                                                                *)
ReplyHasOutput ==
    /\ client.reply # NoReply
    /\ responseOk(client.reply.status)
    /\ client.reply.body.json
    /\ Field(client.reply.body.value, "output").k \notin {"undefined", "null"}

(* C36: translateViaBackend never rejects; it resolves with success: true   *)
(* only for a 2xx reply whose body parses and has an output, which it       *)
(* passes on, and otherwise with success: false and an error with a code;   *)
(* translateWithOpenAI returns an output exactly when the call succeeded    *)
(* and throws otherwise.                                                    *)
ClientResultShape ==
    client.phase = "resolved"
    => /\ client.result.kind = "resolved"
       /\ client.result.value.success <=> ReplyHasOutput
       /\ client.result.value.success
            => /\ client.configured
               /\ ~textMissing(client.text).missing
               /\ client.result.value.output
                    = Field(client.reply.body.value, "output")
       /\ ~client.result.value.success
            => /\ client.result.value.error # JUndefined
               /\ client.result.value.error.code # ""
               /\ client.result.value.error.message.k = "string"
       /\ translateWithOpenAI(client.result.value).kind
            = IF client.result.value.success THEN "return" ELSE "throw"
       /\ translateWithOpenAI(client.result.value).kind = "return"
            => translateWithOpenAI(client.result.value).output.k = "object"

(* the call resolved with the translation the upstream produced *)
ClientGotTranslation ==
    /\ client.phase = "resolved"
    /\ client.result.kind = "resolved"
    /\ client.result.value.success
    /\ client.result.value.output = GoodResult

(* C37: a call of translateViaBackend that has not got the whole reply,     *)
(* headers and body, 30 seconds after the request was sent is aborted: no   *)
(* call is pending after that.                                              *)
ClientCallBounded ==
    client.phase \in {"fetch", "body"} => now - client.at <= REQUEST_TIMEOUT_MS

(* C38: the code of every error the client makes of a response of the       *)
(* handler is one of the declared TranslateErrorCode values.                *)
ClientCodesDeclared ==
    ( /\ client.phase = "resolved"
      /\ client.result.kind = "resolved"
      /\ ~client.result.value.success
      /\ last.stage # "none"
      /\ client.reply = wireOf(last.response) )
    => client.result.value.error.code \in TranslateErrorCode
(* performTranslation was called in the step *)
Performed == screen'.calls = screen.calls + 1

(* C39: a call of performTranslation whose trimmed text is blank or is the  *)
(* remembered text of the previous submission calls no translation and      *)
(* leaves the screen as it was, however the previous attempt ended; any     *)
(* other call sends one request and remembers the text; a request is sent   *)
(* only by such a call; handleClear forgets the text; isLoading is false    *)
(* after an attempt completes.                                              *)
ScreenDeduplicates ==
    [][ /\ Performed
           => IF \/ trim(screen'.called) = <<>>
                 \/ trim(screen'.called) = screen.lastTranslatedText
              THEN /\ screen'.sent = screen.sent
                   /\ screen'.attempts = screen.attempts
                   /\ screen'.isLoading = screen.isLoading
                   /\ screen'.lastTranslatedText = screen.lastTranslatedText
              ELSE /\ screen'.sent = screen.sent + 1
                   /\ screen'.attempts
                        = screen.attempts (+) SetToBag({trim(screen'.called)})
                   /\ screen'.isLoading
                   /\ screen'.lastTranslatedText = trim(screen'.called)
        /\ screen'.sent # screen.sent => Performed
        /\ screen'.completed # screen.completed => ~screen'.isLoading
        /\ ( ~Performed /\ screen'.lastTranslatedText # screen.lastTranslatedText )
           => screen'.lastTranslatedText = <<>> ]_vars

(* the text of a failed attempt was submitted again, with a blank before    *)
(* it, and no request was sent for it                                       *)
ResubmissionSuppressed ==
    /\ screen.outcome = "throw"
    /\ screen.called = TextAzSpaced
    /\ screen.lastTranslatedText = TextAz
    /\ screen.calls = 2
    /\ screen.sent = 1
    /\ screen.completed = 1
====
